---- MODULE Spec2Model ----
(***************************************************************************)
(* Order-execution and position-protection engine of the futures trading   *)
(* agent (tradingagents/agents/utils/futures_execution_tools.py on top of  *)
(* tradingagents/dataflows/asterdex_futures_api.py), for one symbol.       *)
(*                                                                         *)
(* The exchange holds the state (position, mark price, open orders); the   *)
(* engine is stateless between calls.  Every request an operation sends to *)
(* the exchange is one step, so the states between two requests of the     *)
(* same operation are states of the model.  Prices are integers in units   *)
(* of 0.01 (the tick is 0.50), quantities are integers in units of the     *)
(* step size.                                                              *)
(***************************************************************************)
EXTENDS Integers, Sequences, FiniteSets, TLC

VARIABLES
    position_amt,   \* signed position quantity on the exchange (0 = flat)
    mark_price,     \* mark price of the symbol
    orders,         \* open orders of the symbol, in the order the exchange lists them
    pc,             \* where the running operation stands ("idle" = none running)
    loc,            \* local variables of the running operation
    h,              \* record of the running / last operation (arguments, result, requests)
    faults,         \* number of exchange requests that failed so far
    account,        \* the futures account: available balance, leverage set for the symbol
    http,           \* the request the exchange client is sending (_request)
    client,         \* the exchange client's cache and the exchange data it is filled from
    tool,           \* the last call of a status / configuration tool and its result
    graph           \* the decision cycle: the node it is at and the state it carries

vars == <<position_amt, mark_price, orders, pc, loc, h, faults, account, http, client, tool,
          graph>>

\* the state of the exchange client, of the status tools and of the decision cycle
clientVars == <<http, client, tool, graph>>

----------------------------------------------------------------------------
(* Bounds of the model *)

\* at most this many exchange requests fail in one behaviour
MaxFaults == 1

\* a position is added to only while its quantity is below this
MaxPosition == 200

----------------------------------------------------------------------------
(* Values *)

\* Python's None for an Optional[float] price
None == -1

\* tick size and step size of the symbol (exchange filters): a tick of 0.50
TickSize == 50
StepSize == 1

\* the unit of the last decimal place of the tick as place_sl_tp_orders reads
\* it, Decimal(str(tick_size)): 0.1 for a tick of 0.5
TickPlace == 10

\* thresholds of the safety checks
SlDangerPerMille == 5
TpDangerPerMille == 2
MatchPerMille == 1
QtyTolerancePct == 1

\* attempts of _place_sl_tp_with_retry
MaxRetries == 3

\* exchange filters of the symbol: minimum quantity, minimum notional
\* (5.01 in units of price * quantity) and minimum price
MinQty == 2
MinNotional == 50100
MinPrice == 50

\* the highest leverage open_long_position / open_short_position raises to
MaxLeverage == 125

\* values a caller may pass as stop_loss_price / take_profit_price for a
\* position of signed quantity amt: None, 0.0, stop-losses on the losing side of
\* the market, take-profits on the winning side; the last stop-loss is not a
\* multiple of the tick nor of its last decimal place
ReqSl(amt) == IF amt >= 0 THEN {None, 0, 9000, 9534} ELSE {None, 0, 11000, 10466}
ReqTp(amt) == IF amt >= 0 THEN {None, 0, 9550} ELSE {None, 0, 10450}
\* mark prices the market moves between
MarkPrices(amt) == IF amt >= 0 THEN {10000, 9540} ELSE {10000, 10460}
\* position quantities
Quantities == {100, 200}
\* quantities of an entry order
EntryQtys == {100}
\* entry prices a caller may give (None = market order)
EntryPrices == {None, 10000}

Abs(x) == IF x < 0 THEN -x ELSE x

\* truth value of an Optional[float] in a Python condition (None and 0.0 are false)
Truthy(p) == p # None /\ p # 0

----------------------------------------------------------------------------
(* Exchange client: numeric formatting and order records *)

RoundDown(value, step) == (value \div step) * step

RoundHalfUp(value, step) == ((2 * value + step) \div (2 * step)) * step

\* _format_decimal: the value as a multiple of step, rounded as asked (the
\* precision of the symbol is the price / quantity unit of the model)
FormatDecimal(value, step, rounding) ==
    IF value = None THEN None
    ELSE IF step > 0
         THEN (IF rounding = "ROUND_DOWN" THEN RoundDown(value, step)
                                          ELSE RoundHalfUp(value, step))
         ELSE value

\* _align_price of place_sl_tp_orders: quantize(tick_decimal) rounds the price
\* to the decimal places of the tick, not to a multiple of it
AlignPrice(price) ==
    IF price = None \/ TickSize <= 0 THEN price ELSE RoundHalfUp(price, TickPlace)

Max(S) == CHOOSE x \in S : \A y \in S : y <= x

OrderIds(ords) == {ords[i].orderId : i \in 1..Len(ords)}

\* order ids someone still holds: open on the exchange, read by the running
\* operation, or recorded for the last one
UsedIds == OrderIds(orders) \cup OrderIds(loc.open_orders) \cup OrderIds(h.pre)
               \cup OrderIds(h.placed)

\* the exchange gives an accepted order an id no one holds
FreshId == CHOOSE n \in 1..(Cardinality(UsedIds) + 1) :
               n \notin UsedIds /\ \A m \in 1..(n - 1) : m \in UsedIds

\* the order as the exchange lists it after place_order sent it
NewOrder(side, type, quantity, stop_price, reduce_only) ==
    [orderId    |-> FreshId,
     side       |-> side,
     type       |-> type,
     origQty    |-> FormatDecimal(quantity, StepSize, "ROUND_DOWN"),
     stopPrice  |-> IF stop_price = None THEN 0
                    ELSE FormatDecimal(stop_price, TickSize, "ROUND_HALF_UP"),
     reduceOnly |-> reduce_only]

\* DELETE /order: the open orders without the one cancelled
WithoutOrder(ords, id) == SelectSeq(ords, LAMBDA o : o.orderId # id)

----------------------------------------------------------------------------
(* Protective order manager: the pure checks *)

ProtectiveIdx(ords, type) ==
    {i \in 1..Len(ords) : ords[i].reduceOnly /\ ords[i].type = type}

\* _extract_protective_orders, one leg: the trigger price of the last listed
\* reduce-only order of the type with a positive trigger price
ExtractProtective(ords, type) ==
    LET S == {i \in ProtectiveIdx(ords, type) : ords[i].stopPrice > 0}
    IN  IF S = {} THEN None ELSE ords[Max(S)].stopPrice

\* the quantity loop of _prices_match, one leg
ExistingQty(ords, type) ==
    LET S == ProtectiveIdx(ords, type)
    IN  IF S = {} THEN 0 ELSE ords[Max(S)].origQty

\* _in_danger_zone without its take-profit leg
InDangerZone_StopLossOnly(current_price, existing_sl, existing_tp) ==
    /\ Truthy(existing_sl) /\ existing_sl > 0
    /\ Abs(current_price - existing_sl) * 1000 < SlDangerPerMille * current_price

\* _in_danger_zone: distance / current_price < threshold
InDangerZone(current_price, existing_sl, existing_tp) ==
    \/ /\ Truthy(existing_sl) /\ existing_sl > 0
       /\ Abs(current_price - existing_sl) * 1000 < SlDangerPerMille * current_price
    \/ /\ Truthy(existing_tp) /\ existing_tp > 0
       /\ Abs(current_price - existing_tp) * 1000 < TpDangerPerMille * current_price

\* _is_trailing_stop_valid with the comparisons of lines 1171 and 1177 made
\* non-strict: an unchanged stop-loss counts as a violation
IsTrailingStopValid_NonStrict(position_side, existing_sl, new_sl) ==
    IF ~Truthy(new_sl) THEN TRUE
    ELSE IF ~Truthy(existing_sl) THEN TRUE
    ELSE IF position_side = "LONG" THEN ~(new_sl <= existing_sl)
    ELSE IF position_side = "SHORT" THEN ~(new_sl >= existing_sl)
    ELSE TRUE

\* _is_trailing_stop_valid
IsTrailingStopValid(position_side, existing_sl, new_sl) ==
    IF ~Truthy(new_sl) THEN TRUE
    ELSE IF ~Truthy(existing_sl) THEN TRUE
    ELSE IF position_side = "LONG" THEN ~(new_sl < existing_sl)
    ELSE IF position_side = "SHORT" THEN ~(new_sl > existing_sl)
    ELSE TRUE

\* one price leg of _prices_match
LegMatches(existing, new) ==
    IF Truthy(new) /\ Truthy(existing) /\ existing > 0
    THEN ~(Abs(new - existing) * 1000 > MatchPerMille * existing)
    ELSE IF Truthy(new) /\ ~Truthy(existing) THEN FALSE
    ELSE TRUE

\* one quantity leg of _prices_match
QtyMatches(existing_qty, expected_quantity) ==
    IF existing_qty > 0
    THEN ~(Abs(existing_qty - expected_quantity) * 100 > QtyTolerancePct * expected_quantity)
    ELSE FALSE

\* _prices_match
PricesMatch(existing_sl, existing_tp, new_sl, new_tp, existing_orders, expected_quantity) ==
    /\ LegMatches(existing_sl, new_sl)
    /\ LegMatches(existing_tp, new_tp)
    /\ IF Len(existing_orders) > 0 /\ expected_quantity > 0
       THEN /\ QtyMatches(ExistingQty(existing_orders, "STOP_MARKET"), expected_quantity)
            /\ QtyMatches(ExistingQty(existing_orders, "TAKE_PROFIT_MARKET"), expected_quantity)
       ELSE TRUE

----------------------------------------------------------------------------
(* State of an operation *)

NoLoc ==
    [op          |-> "",
     open_orders |-> <<>>,     \* the open orders the operation read
     sl          |-> None,     \* stop-loss to place
     tp          |-> None,     \* take-profit to place
     quantity    |-> 0,
     side        |-> "",       \* closing side
     idx         |-> 0,        \* position of a loop over open_orders
     attempt     |-> 0,        \* attempt of _place_sl_tp_with_retry
     direction   |-> "",       \* open_*_position: the direction to open
     position_size_usd |-> 0,
     leverage    |-> 0,
     entry_price |-> None,
     current_price |-> 0,
     old_quantity |-> 0,       \* current_state["quantity"]
     percent     |-> 0]        \* close_position / reduce_position

NoHistory ==
    [op |-> "", sl |-> None, tp |-> None,
     pre |-> <<>>, preSl |-> FALSE, prePos |-> 0, floor |-> None,
     result |-> "", reason |-> "",
     placed |-> <<>>, cancelReq |-> <<>>, repeat |-> FALSE,
     call |-> <<>>,       \* the arguments of an open / close / reduce call
     req |-> <<>>,        \* the requests the operation sent, in their order
     close |-> <<>>,      \* the reduce-only market order it sent
     entry |-> <<>>,      \* the entry order it sent
     sizing |-> <<>>,     \* what the sizing of an entry order worked with
     adjustments |-> <<>>]  \* the notes of steps 1-5 in the adjustments list

\* the stop-loss trigger prices of the open reduce-only orders among ords
StopLossPrices(ords) ==
    {ords[i].stopPrice : i \in {j \in 1..Len(ords) :
                                   ords[j].reduceOnly /\ ords[j].type = "STOP_MARKET"}}

\* the price of S that protects a position of signed quantity amt most (the
\* highest for a LONG, the lowest for a SHORT), None when S is empty
Tightest(amt, S) ==
    IF S = {} THEN None
    ELSE IF amt > 0 THEN CHOOSE x \in S : \A y \in S : y <= x
                    ELSE CHOOSE x \in S : \A y \in S : x <= y

\* the record of an operation that starts now, called with (sl, tp); repeat tells
\* that the last operation was the same call, returned "updated", and nothing
\* moved since; floor is the tightest stop-loss that is open or that the
\* update_sl_tp_safe calls made since the market last moved had open or placed
HBegin(op, sl, tp) ==
    [op |-> op,
     sl |-> IF op = "update_sl_tp_safe" THEN sl ELSE None,
     tp |-> IF op = "update_sl_tp_safe" THEN tp ELSE None,
     pre |-> orders,
     preSl |-> ProtectiveIdx(orders, "STOP_MARKET") # {},
     prePos |-> position_amt,
     floor |-> IF op = "update_sl_tp_safe"
               THEN Tightest(position_amt,
                        StopLossPrices(orders) \cup
                        (IF h.op = op /\ h.prePos = position_amt
                         THEN ({h.floor} \ {None}) \cup StopLossPrices(h.placed)
                         ELSE {}))
               ELSE None,
     result |-> "running", reason |-> "",
     placed |-> <<>>, cancelReq |-> <<>>,
     call |-> <<>>, req |-> <<>>, close |-> <<>>, entry |-> <<>>, sizing |-> <<>>,
     adjustments |-> <<>>,
     repeat |-> (h.op = op /\ h.sl = sl /\ h.tp = tp /\ h.result = "updated"
                 /\ h.prePos = position_amt)]

\* Order ids are opaque handles, so a state is kept up to a renaming of the
\* ids: when an operation returns, the open orders are numbered 1..n as listed
\* and the ids only the record still holds follow, in ids, first seen first.
IdsOf(ords) == [i \in 1..Len(ords) |-> ords[i].orderId]

Rank(ids, id) ==
    LET first == CHOOSE i \in 1..Len(ids) :
                     ids[i] = id /\ \A j \in 1..(i - 1) : ids[j] # id
    IN  Cardinality({ids[j] : j \in 1..first})

Renamed(ords, ids) ==
    [i \in 1..Len(ords) |-> [ords[i] EXCEPT !.orderId = Rank(ids, @)]]

\* the operation returns result (reason tells which return of the code it is),
\* leaving ords open on the exchange
Return(hh, ords, result, reason) ==
    LET ids == IdsOf(ords) \o IdsOf(hh.pre) \o IdsOf(hh.placed) \o hh.cancelReq
    IN  /\ pc' = "idle"
        /\ loc' = NoLoc
        /\ orders' = Renamed(ords, ids)
        /\ h' = [hh EXCEPT !.result = result,
                           !.reason = reason,
                           !.pre = Renamed(@, ids),
                           !.placed = Renamed(@, ids),
                           !.cancelReq = [i \in 1..Len(@) |-> Rank(ids, @[i])]]

\* an exchange request may fail (raise) while the bound allows
CanFail == faults < MaxFaults

ClosingSide(amt) == IF amt > 0 THEN "SELL" ELSE "BUY"

\* an account whose balance covers every order of the model at any leverage
FundedAccount == [available_balance |-> 2000000, leverage |-> 1]

PositionSide(amt) == IF amt > 0 THEN "LONG" ELSE "SHORT"

\* no request being sent
NoRequest ==
    [phase |-> "idle",       \* "loop" while _request runs, "done" once it is over
     signed |-> FALSE,
     attempt |-> 0,          \* the loop variable
     given |-> <<>>,         \* the params the caller handed over
     params |-> <<>>,        \* kwargs['params']
     sent |-> <<>>,          \* the parameters of every attempt transmitted
     taken |-> <<>>,         \* the timestamp taken for every attempt
     responses |-> <<>>,     \* what every attempt ended in
     outcome |-> ""]         \* "returned", or the exception raised

\* no tool called yet
NoTool == [name |-> "", args |-> <<>>, result |-> <<>>]

\* the client as __init__ leaves it (the caches empty), before any exchange data
NoClient ==
    [max_retries |-> 0,
     clock |-> 0,               \* the time _get_timestamp reads
     symbol_filters |-> <<>>,   \* self._symbol_filters: symbol -> filters
     exchange_info |-> <<>>]    \* what the exchange publishes for the symbol

\* no decision cycle was started
NoGraph ==
    [node |-> "",                        \* the node to run next
     messages |-> <<>>,                  \* state["messages"]
     technical_research_report |-> "",
     risk_assessment |-> "",
     portfolio_plan |-> "",
     error |-> "",                       \* the exception that ended the cycle
     steps |-> 0]                        \* nodes run in this cycle

\* the exchange client and the tools at rest, no decision cycle started
ClientIdle == http = NoRequest /\ client = NoClient /\ tool = NoTool /\ graph = NoGraph

Init ==
    /\ position_amt \in {100, -100}
    /\ mark_price = 10000
    /\ orders = <<>>
    /\ pc = "idle"
    /\ loc = NoLoc
    /\ h = NoHistory
    /\ faults = 0
    /\ account = FundedAccount
    /\ ClientIdle

----------------------------------------------------------------------------
(* update_sl_tp_safe *)

\* the checks with the danger zone looked at before the trailing stop
SafeChecks_DangerZoneFirst(position_side, current_price, existing_sl, existing_tp, stop_loss_price, take_profit_price, open_orders, quantity) ==
    IF InDangerZone(current_price, existing_sl, existing_tp)
    THEN "danger_zone"
    ELSE IF ~IsTrailingStopValid(position_side, existing_sl, stop_loss_price)
    THEN "trailing_stop"
    ELSE IF PricesMatch(existing_sl, existing_tp, stop_loss_price, take_profit_price,
                        open_orders, quantity)
    THEN "already_optimal"
    ELSE "replace"

\* steps 3-5: the three safety checks in their order; the tag of the first one
\* that returns, or "replace" when none does
SafeChecks(position_side, current_price, existing_sl, existing_tp, stop_loss_price, take_profit_price, open_orders, quantity) ==
    IF ~IsTrailingStopValid(position_side, existing_sl, stop_loss_price)
    THEN "trailing_stop"
    ELSE IF InDangerZone(current_price, existing_sl, existing_tp)
    THEN "danger_zone"
    ELSE IF PricesMatch(existing_sl, existing_tp, stop_loss_price, take_profit_price,
                        open_orders, quantity)
    THEN "already_optimal"
    ELSE "replace"

\* final_sl / final_tp taken from the arguments alone
FinalPrice_AsRequested(requested, existing) == requested

\* step 6: final_sl / final_tp, None keeps the existing value
FinalPrice(requested, existing) ==
    IF requested # None THEN requested ELSE existing

\* steps 1-6 up to the first placement: the reads and the checks
UpdateSlTpSafe(stop_loss_price, take_profit_price) ==
    /\ pc = "idle"
    /\ LET hb == HBegin("update_sl_tp_safe", stop_loss_price, take_profit_price)
           quantity == Abs(position_amt)
           current_price == mark_price
           position_side == PositionSide(position_amt)
           open_orders == orders
           existing_sl == ExtractProtective(open_orders, "STOP_MARKET")
           existing_tp == ExtractProtective(open_orders, "TAKE_PROFIT_MARKET")
           check == SafeChecks(position_side, current_price, existing_sl, existing_tp,
                               stop_loss_price, take_profit_price, open_orders, quantity)
       IN  /\ UNCHANGED <<position_amt, mark_price, faults, account, clientVars>>
           /\ IF position_amt = 0
              THEN Return(hb, orders, "error", "no_position")
              ELSE IF check = "trailing_stop"
              THEN Return(hb, orders, "rejected", check)
              ELSE IF check \in {"danger_zone", "already_optimal"}
              THEN Return(hb, orders, "skipped", check)
              ELSE /\ pc' = "place_sl"
                   /\ h' = hb
                   /\ loc' = [NoLoc EXCEPT !.op = "update_sl_tp_safe",
                                           !.open_orders = open_orders,
                                           !.sl = FinalPrice(stop_loss_price, existing_sl),
                                           !.tp = FinalPrice(take_profit_price, existing_tp),
                                           !.quantity = quantity,
                                           !.side = ClosingSide(position_amt),
                                           !.idx = 1]
                   /\ UNCHANGED orders

\* step 6b: the cancel loop over the orders read before the placement
SafeCancelOld ==
    /\ pc = "safe_cancel"
    /\ UNCHANGED <<position_amt, mark_price, account, clientVars>>
    /\ IF loc.idx > Len(loc.open_orders)
       THEN /\ Return(h, orders, "updated", "replaced")
            /\ UNCHANGED faults
       ELSE LET order == loc.open_orders[loc.idx]
            IN  /\ pc' = pc
                /\ loc' = [loc EXCEPT !.idx = @ + 1]
                /\ IF order.reduceOnly
                   THEN /\ h' = [h EXCEPT !.cancelReq = Append(@, order.orderId)]
                        /\ \/ /\ orders' = WithoutOrder(orders, order.orderId)
                              /\ UNCHANGED faults
                           \/ /\ CanFail
                              /\ faults' = faults + 1
                              /\ UNCHANGED orders
                   ELSE UNCHANGED <<orders, faults, h>>

----------------------------------------------------------------------------
(* update_sl_tp *)

UpdateSlTp(stop_loss_price, take_profit_price) ==
    /\ pc = "idle"
    /\ UNCHANGED <<position_amt, mark_price, faults, account, clientVars>>
    /\ LET hb == HBegin("update_sl_tp", stop_loss_price, take_profit_price)
       IN  IF position_amt = 0
           THEN Return(hb, orders, "error", "no_position")
           ELSE /\ pc' = "upd_cancel_all"
                /\ h' = hb
                /\ loc' = [NoLoc EXCEPT !.op = "update_sl_tp",
                                        !.sl = stop_loss_price,
                                        !.tp = take_profit_price,
                                        !.quantity = Abs(position_amt),
                                        !.side = ClosingSide(position_amt)]
                /\ UNCHANGED orders

\* step 2: cancel_all_orders
UpdCancelAll ==
    /\ pc = "upd_cancel_all"
    /\ UNCHANGED <<position_amt, mark_price, account, clientVars>>
    /\ \/ /\ orders' = <<>>
          /\ h' = [h EXCEPT !.cancelReq = @ \o IdsOf(orders)]
          /\ pc' = "place_sl"
          /\ UNCHANGED <<loc, faults>>
       \/ /\ CanFail
          /\ faults' = faults + 1
          /\ Return(h, orders, "error", "unexpected")

----------------------------------------------------------------------------
(* open_long_position / open_short_position, adding to a position of the
   same direction *)

\* quantity of the open entry (non-reduce-only) orders
RestingQty(ords) ==
    LET S == {i \in 1..Len(ords) : ~ords[i].reduceOnly}
    IN  IF S = {} THEN 0 ELSE ords[Max(S)].origQty

\* steps 1-9: the position read, the entry order and the position re-read.
\* quantity is the quantity the sizing arrived at.  A MARKET entry is filled
\* when the position is read again, a LIMIT entry rests on the book.
OpenPosition(direction, quantity, entry_price, stop_loss_price, take_profit_price) ==
    /\ pc = "idle"
    /\ position_amt # 0
    /\ PositionSide(position_amt) = direction
    /\ RestingQty(orders) = 0
    /\ Abs(position_amt) + quantity \in Quantities
    /\ UNCHANGED <<mark_price, account, clientVars>>
    /\ LET hb == HBegin("open_position", stop_loss_price, take_profit_price)
           buy_sell == IF direction = "LONG" THEN "BUY" ELSE "SELL"
           order_type == IF Truthy(entry_price) THEN "LIMIT" ELSE "MARKET"
           order == NewOrder(buy_sell, order_type, quantity, None, FALSE)
           old_quantity == Abs(position_amt)
           filled_amt == IF direction = "LONG" THEN position_amt + order.origQty
                                               ELSE position_amt - order.origQty
           final_amt == IF order_type = "MARKET" THEN filled_amt ELSE position_amt
           final_orders == IF order_type = "MARKET" THEN orders ELSE Append(orders, order)
           total_quantity == IF Abs(final_amt) <= 0 THEN quantity ELSE Abs(final_amt)
           position_changed == Abs(total_quantity - old_quantity) > 0
       IN  \/ /\ CanFail
              /\ faults' = faults + 1
              /\ Return(hb, orders, "error", "unexpected")
              /\ UNCHANGED position_amt
           \/ /\ CanFail
              /\ faults' = faults + 1
              /\ position_amt' = final_amt
              /\ Return(hb, final_orders, "error", "read_failed")
           \/ /\ position_amt' = final_amt
              /\ UNCHANGED faults
              /\ IF position_changed
                 THEN /\ pc' = "open_cancel"
                      /\ h' = hb
                      /\ orders' = final_orders
                      /\ loc' = [NoLoc EXCEPT !.op = "open_position",
                                              !.open_orders = final_orders,
                                              !.sl = stop_loss_price,
                                              !.tp = take_profit_price,
                                              !.quantity = total_quantity,
                                              !.side = IF direction = "LONG" THEN "SELL"
                                                                             ELSE "BUY",
                                              !.idx = 1,
                                              !.attempt = 1]
                 ELSE Return(hb, final_orders, "success", "position_unchanged")

open_long_position(quantity, entry_price, stop_loss_price, take_profit_price) ==
    OpenPosition("LONG", quantity, entry_price, stop_loss_price, take_profit_price)

open_short_position(quantity, entry_price, stop_loss_price, take_profit_price) ==
    OpenPosition("SHORT", quantity, entry_price, stop_loss_price, take_profit_price)

\* step 9: the cancel loop over the reduce-only orders, failures passed over,
\* then step 10 when a price was given
OpenCancelOld ==
    /\ pc = "open_cancel"
    /\ UNCHANGED <<position_amt, mark_price, account, clientVars>>
    /\ IF loc.idx > Len(loc.open_orders)
       THEN /\ UNCHANGED faults
            /\ IF Truthy(loc.sl) \/ Truthy(loc.tp)
               THEN /\ pc' = "place_sl"
                    /\ UNCHANGED <<orders, loc, h>>
               ELSE Return(h, orders, "success", "no_protection_requested")
       ELSE LET order == loc.open_orders[loc.idx]
            IN  /\ pc' = pc
                /\ loc' = [loc EXCEPT !.idx = @ + 1]
                /\ IF order.reduceOnly
                   THEN /\ h' = [h EXCEPT !.cancelReq = Append(@, order.orderId)]
                        /\ \/ /\ orders' = WithoutOrder(orders, order.orderId)
                              /\ UNCHANGED faults
                           \/ /\ CanFail
                              /\ faults' = faults + 1
                              /\ UNCHANGED orders
                   ELSE UNCHANGED <<orders, faults, h>>

----------------------------------------------------------------------------
(* place_sl_tp_orders, called by the operations *)

\* place_sl_tp_orders returned to its caller, ords open on the exchange
PlaceReturned(hh, ords) ==
    CASE loc.op = "update_sl_tp_safe" -> /\ pc' = "safe_cancel"
                                         /\ loc' = loc
                                         /\ h' = hh
                                         /\ orders' = ords
      [] loc.op = "update_sl_tp"      -> Return(hh, ords, "success", "placed")
      [] loc.op = "open_position"     -> Return(hh, ords, "success", "placed")

\* place_sl_tp_orders raised, and the except of step 6a of update_sl_tp_safe
\* clears the symbol's orders (cancel_all_orders) before it returns the error
PlaceRaised_ClearsOrders(hh, ords) ==
    CASE loc.op = "update_sl_tp_safe" -> Return(hh, <<>>, "error", "place_failed")
      [] loc.op = "update_sl_tp"      -> Return(hh, ords, "error", "unexpected")
      [] loc.op = "open_position"     ->
             IF loc.attempt < MaxRetries
             THEN /\ pc' = "place_sl"
                  /\ loc' = [loc EXCEPT !.attempt = @ + 1]
                  /\ h' = hh
                  /\ orders' = ords
             ELSE Return(hh, ords, "success", "sl_tp_failed")

\* place_sl_tp_orders raised, and _place_sl_tp_with_retry allows one attempt
\* more than max_retries
PlaceRaised_OneAttemptMore(hh, ords) ==
    CASE loc.op = "update_sl_tp_safe" -> Return(hh, ords, "error", "place_failed")
      [] loc.op = "update_sl_tp"      -> Return(hh, ords, "error", "unexpected")
      [] loc.op = "open_position"     ->
             IF loc.attempt <= MaxRetries
             THEN /\ pc' = "place_sl"
                  /\ loc' = [loc EXCEPT !.attempt = @ + 1]
                  /\ h' = hh
                  /\ orders' = ords
             ELSE Return(hh, ords, "success", "sl_tp_failed")

\* place_sl_tp_orders raised in its caller
PlaceRaised(hh, ords) ==
    CASE loc.op = "update_sl_tp_safe" -> Return(hh, ords, "error", "place_failed")
      [] loc.op = "update_sl_tp"      -> Return(hh, ords, "error", "unexpected")
      [] loc.op = "open_position"     ->
             \* _place_sl_tp_with_retry: the next attempt, or final_error
             IF loc.attempt < MaxRetries
             THEN /\ pc' = "place_sl"
                  /\ loc' = [loc EXCEPT !.attempt = @ + 1]
                  /\ h' = hh
                  /\ orders' = ords
             ELSE Return(hh, ords, "success", "sl_tp_failed")

\* the record of the operation after the exchange accepted order
HPlaced(order) == [h EXCEPT !.placed = Append(@, order)]

\* the stop-loss leg
PlaceSl ==
    /\ pc = "place_sl"
    /\ UNCHANGED <<position_amt, mark_price, account, clientVars>>
    /\ LET stop_loss_price == AlignPrice(loc.sl)
           sl_order == NewOrder(loc.side, "STOP_MARKET", loc.quantity, stop_loss_price, TRUE)
       IN  IF Truthy(stop_loss_price)
           THEN \/ /\ orders' = Append(orders, sl_order)
                   /\ h' = HPlaced(sl_order)
                   /\ pc' = "place_tp"
                   /\ UNCHANGED <<loc, faults>>
                \/ /\ CanFail
                   /\ faults' = faults + 1
                   /\ PlaceRaised(h, orders)
           ELSE /\ pc' = "place_tp"
                /\ UNCHANGED <<orders, loc, h, faults>>

\* the take-profit leg, and the return
PlaceTp ==
    /\ pc = "place_tp"
    /\ UNCHANGED <<position_amt, mark_price, account, clientVars>>
    /\ LET take_profit_price == AlignPrice(loc.tp)
           tp_order == NewOrder(loc.side, "TAKE_PROFIT_MARKET", loc.quantity,
                                take_profit_price, TRUE)
       IN  IF Truthy(take_profit_price)
           THEN \/ /\ PlaceReturned(HPlaced(tp_order), Append(orders, tp_order))
                   /\ UNCHANGED faults
                \/ /\ CanFail
                   /\ faults' = faults + 1
                   /\ PlaceRaised(h, orders)
           ELSE /\ PlaceReturned(h, orders)
                /\ UNCHANGED faults

----------------------------------------------------------------------------
(* The market *)

\* the mark price moves between two operations
MarkMove ==
    /\ pc = "idle"
    /\ \E p \in MarkPrices(position_amt) \ {mark_price} : mark_price' = p
    /\ h' = NoHistory
    /\ UNCHANGED <<position_amt, orders, pc, loc, faults, account, clientVars>>

\* a resting entry order is filled between two operations
EntryFill ==
    /\ pc = "idle"
    /\ \E i \in 1..Len(orders) :
          /\ ~orders[i].reduceOnly
          /\ position_amt' = IF orders[i].side = "BUY"
                              THEN position_amt + orders[i].origQty
                              ELSE position_amt - orders[i].origQty
          /\ orders' = Renamed(WithoutOrder(orders, orders[i].orderId),
                               IdsOf(WithoutOrder(orders, orders[i].orderId)))
    /\ h' = NoHistory
    /\ UNCHANGED <<mark_price, pc, loc, faults, account, clientVars>>

----------------------------------------------------------------------------

Next ==
    \/ \E sl \in ReqSl(position_amt), tp \in ReqTp(position_amt) : UpdateSlTpSafe(sl, tp)
    \/ SafeCancelOld
    \/ \E sl \in ReqSl(position_amt), tp \in ReqTp(position_amt) : UpdateSlTp(sl, tp)
    \/ UpdCancelAll
    \/ \E q \in EntryQtys, ep \in EntryPrices,
          sl \in ReqSl(position_amt), tp \in ReqTp(position_amt) :
            open_long_position(q, ep, sl, tp)
    \/ \E q \in EntryQtys, ep \in EntryPrices,
          sl \in ReqSl(position_amt), tp \in ReqTp(position_amt) :
            open_short_position(q, ep, sl, tp)
    \/ OpenCancelOld
    \/ PlaceSl
    \/ PlaceTp
    \/ MarkMove
    \/ EntryFill

Spec == Init /\ [][Next]_vars

\* update_sl_tp_safe the only operation called, on a position that does not change
NextSafe ==
    \/ \E sl \in ReqSl(position_amt), tp \in ReqTp(position_amt) : UpdateSlTpSafe(sl, tp)
    \/ SafeCancelOld
    \/ PlaceSl
    \/ PlaceTp
    \/ MarkMove

SpecSafe == Init /\ [][NextSafe]_vars

----------------------------------------------------------------------------
(* Arithmetic of the sizing *)

\* the least integer not below a / b, for a >= 0 and b > 0
CeilDiv(a, b) == (a + b - 1) \div b

\* math.ceil(a / b) on doubles.  The operands are decimal numbers rounded to
\* doubles and the quotient is rounded again, so a quotient that is the integer
\* k in exact arithmetic can come out just above k (0.07 / 0.01 is
\* 7.000000000000001, 96079.85 / 3099.35 is 31.000000000000004) and math.ceil
\* then gives k + 1; which multiples do depends on their binary expansions, so
\* for an exact multiple both results are possible.
CeilOfQuotient(a, b) ==
    IF a % b = 0 THEN {a \div b, a \div b + 1} ELSE {CeilDiv(a, b)}

\* Python's round(value / step) * step: to the nearest multiple, a tie to the
\* even one
RoundHalfEven(value, step) ==
    LET q == value \div step
        r == value % step
    IN  IF 2 * r < step THEN q * step
        ELSE IF 2 * r > step THEN (q + 1) * step
        ELSE IF q % 2 = 0 THEN q * step ELSE (q + 1) * step

----------------------------------------------------------------------------
(* open_long_position / open_short_position, the whole operation: the state
   read, the close of an opposite position, the sizing, the leverage, the
   entry order; the resync of the protective orders is OpenCancelOld and
   place_sl_tp_orders above *)

\* sizes (99.995 and 199.995: at a price of 100.00 a quantity of 100 and of
\* 200 once rounded up), leverages and prices a caller may pass
OpenSizes == {999950, 1999950}
OpenLeverages == {10}
OpenSl(direction) == IF direction = "LONG" THEN {None, 9000} ELSE {None, 11000}
OpenTp(direction) == IF direction = "LONG" THEN {None, 11000} ELSE {None, 9000}

\* the record of an open_*_position call that starts now
HOpen(direction, position_size_usd, leverage, entry_price, stop_loss_price, take_profit_price) ==
    [HBegin("open_position", stop_loss_price, take_profit_price)
        EXCEPT !.sl = stop_loss_price,
               !.tp = take_profit_price,
               !.pre = orders,
               !.call = <<[direction |-> direction,
                           position_size_usd |-> position_size_usd,
                           leverage |-> leverage,
                           entry_price |-> entry_price,
                           exchange_leverage |-> account.leverage]>>]

\* the request of AsterFuturesClient.close_position: a reduce-only market order
\* for percent of the position amt, on its closing side, as place_order sends it
CloseRequest(amt, percent) ==
    [side       |-> ClosingSide(amt),
     type       |-> "MARKET",
     quantity   |-> FormatDecimal((Abs(amt) * percent) \div 100, StepSize, "ROUND_DOWN"),
     price      |-> None,
     reduceOnly |-> TRUE]

\* the position after the exchange filled a reduce-only market order
AfterReduce(amt, request) ==
    LET filled == IF request.quantity < Abs(amt) THEN request.quantity ELSE Abs(amt)
    IN  IF amt > 0 THEN amt - filled ELSE amt + filled

\* steps 1-3, the branch taken on the position read
OpenBegin(direction, position_size_usd, leverage, entry_price, stop_loss_price, take_profit_price) ==
    /\ pc = "idle"
    /\ (position_amt # 0 /\ PositionSide(position_amt) = direction) =>
           (RestingQty(orders) = 0 /\ Abs(position_amt) < MaxPosition)
    /\ LET has_position == position_amt # 0
           current_direction == IF has_position THEN PositionSide(position_amt) ELSE ""
       IN  /\ h' = HOpen(direction, position_size_usd, leverage, entry_price,
                         stop_loss_price, take_profit_price)
           /\ loc' = [NoLoc EXCEPT !.op = "open_position",
                                   !.direction = direction,
                                   !.position_size_usd = position_size_usd,
                                   !.leverage = leverage,
                                   !.entry_price = entry_price,
                                   !.sl = stop_loss_price,
                                   !.tp = take_profit_price,
                                   !.side = IF direction = "LONG" THEN "SELL" ELSE "BUY",
                                   !.old_quantity = Abs(position_amt)]
           /\ pc' = IF has_position /\ current_direction # direction THEN "flip_close"
                    ELSE IF ~has_position THEN "fresh_cancel"
                    ELSE "open_size"
    /\ UNCHANGED <<position_amt, mark_price, orders, faults, account, clientVars>>

\* step 2: client.close_position(symbol, percent=100.0); the market order is
\* filled by the time the position is read again, or it is not
FlipClose ==
    /\ pc = "flip_close"
    /\ UNCHANGED <<mark_price, account, clientVars>>
    /\ LET request == CloseRequest(position_amt, 100)
       IN  \/ /\ h' = [h EXCEPT !.req = Append(@, "close"), !.close = <<request>>,
                                !.adjustments = @ \o <<"detected_opposite",
                                                       "closed_opposite">>]
              /\ position_amt' \in {AfterReduce(position_amt, request), position_amt}
              /\ pc' = "flip_verify"
              /\ UNCHANGED <<orders, loc, faults>>
           \/ /\ CanFail
              /\ faults' = faults + 1
              /\ Return(h, orders, "error", "unexpected")
              /\ UNCHANGED position_amt

\* step 2 with the entry going ahead whatever the position read tells
FlipVerify_Unchecked ==
    /\ pc = "flip_verify"
    /\ UNCHANGED <<position_amt, mark_price, orders, faults, account, clientVars, loc>>
    /\ pc' = "flip_cancel_all"
    /\ h' = [h EXCEPT !.req = Append(@, IF position_amt # 0 THEN "read_open"
                                                             ELSE "read_flat")]

\* step 2 with the orders of the symbol cancelled before the error is returned
FlipVerify_CancelsBeforeError ==
    /\ pc = "flip_verify"
    /\ UNCHANGED <<position_amt, mark_price, faults, account, clientVars>>
    /\ IF position_amt # 0
       THEN Return([h EXCEPT !.req = Append(@, "read_open")], <<>>,
                   "error", "close_failed")
       ELSE /\ pc' = "flip_cancel_all"
            /\ h' = [h EXCEPT !.req = Append(@, "read_flat")]
            /\ UNCHANGED <<orders, loc>>

\* step 2: the position read that verifies the close
FlipVerify ==
    /\ pc = "flip_verify"
    /\ UNCHANGED <<position_amt, mark_price, faults, account, clientVars>>
    /\ IF position_amt # 0
       THEN Return([h EXCEPT !.req = Append(@, "read_open")], orders,
                   "error", "close_failed")
       ELSE /\ pc' = "flip_cancel_all"
            /\ h' = [h EXCEPT !.req = Append(@, "read_flat")]
            /\ UNCHANGED <<orders, loc>>

\* step 2: cancel_all_orders once the position is flat; a failure leaves the
\* function through its outer except
FlipCancelAll ==
    /\ pc = "flip_cancel_all"
    /\ UNCHANGED <<position_amt, mark_price, account, clientVars>>
    /\ \/ /\ orders' = <<>>
          /\ h' = [h EXCEPT !.req = Append(@, "cancel_all"),
                            !.cancelReq = @ \o IdsOf(orders),
                            !.adjustments = Append(@, "cancelled_all")]
          /\ pc' = "open_size"
          /\ UNCHANGED <<loc, faults>>
       \/ /\ CanFail
          /\ faults' = faults + 1
          /\ Return([h EXCEPT !.req = Append(@, "cancel_all")], orders,
                    "error", "unexpected")

\* step 3: cancel_all_orders with no position; a failure is noted and passed over
FreshCancelAll ==
    /\ pc = "fresh_cancel"
    /\ UNCHANGED <<position_amt, mark_price, account, clientVars, loc>>
    /\ pc' = "open_size"
    /\ \/ /\ orders' = <<>>
          /\ h' = [h EXCEPT !.req = Append(@, "cancel_all"),
                            !.cancelReq = @ \o IdsOf(orders),
                            !.adjustments = Append(@, "cancelled_stale")]
          /\ UNCHANGED faults
       \/ /\ CanFail
          /\ faults' = faults + 1
          /\ h' = [h EXCEPT !.req = Append(@, "cancel_all"),
                            !.adjustments = Append(@, "could_not_cancel")]
          /\ UNCHANGED orders

\* step 5: the quantities the sizing can arrive at, in steps of the quantity
\* unit.  The quantities of the code are kept as numerators over current_price.
SizedQuantities(position_size_usd, current_price) ==
    LET quantity == IF position_size_usd > 0 THEN position_size_usd ELSE 0
        min_qty_from_notional == IF MinNotional # 0 /\ current_price > 0
                                 THEN MinNotional ELSE 0
        target_qty == Max({quantity, MinQty * current_price, min_qty_from_notional})
    IN  {n * StepSize : n \in CeilOfQuotient(target_qty, current_price * StepSize)}

\* step 5: target_qty > quantity, the sizing notes the raised quantity
QuantityRaised(position_size_usd, current_price) ==
    LET quantity == IF position_size_usd > 0 THEN position_size_usd ELSE 0
        min_qty_from_notional == IF MinNotional # 0 /\ current_price > 0
                                 THEN MinNotional ELSE 0
    IN  Max({quantity, MinQty * current_price, min_qty_from_notional}) > quantity

\* the adjustments list when step 5 starts: open_long_position goes on with the
\* list of steps 1-3, open_short_position assigns a new list
AdjustmentsAtSizing(direction, adjustments) ==
    IF direction = "SHORT" THEN <<>> ELSE adjustments

\* the leverage and balance check: required_margin > available_balance, then
\* min_leverage against 125 and against the requested leverage
LeverageCheck(adjusted_notional, leverage, available_balance, min_leverage) ==
    IF adjusted_notional > available_balance * Max({leverage, 1})
    THEN IF min_leverage > MaxLeverage THEN "insufficient"
         ELSE IF min_leverage > leverage THEN "raise" ELSE "keep"
    ELSE "keep"

\* steps 4-5 and the balance check: the price, the quantity, the leverage
OpenSize ==
    /\ pc = "open_size"
    /\ UNCHANGED <<position_amt, mark_price, faults, account, clientVars>>
    /\ LET current_price == IF Truthy(loc.entry_price) THEN loc.entry_price ELSE mark_price
           available_balance == account.available_balance
       IN  IF current_price <= 0
           THEN Return(h, orders, "error", "invalid_price")
           ELSE \E quantity \in SizedQuantities(loc.position_size_usd, current_price) :
                  LET adjusted_notional == quantity * current_price
                      sized == [current_price |-> current_price,
                                quantity |-> quantity,
                                adjusted_notional |-> adjusted_notional,
                                available_balance |-> available_balance,
                                leverage |-> loc.leverage,
                                note |-> FALSE,   \* adjustments tell of a raised leverage
                                errors |-> <<>>]  \* "details" of a refused validation
                      kept == AdjustmentsAtSizing(loc.direction, h.adjustments)
                      hs == [h EXCEPT !.sizing = <<sized>>,
                                      !.adjustments =
                                          IF QuantityRaised(loc.position_size_usd,
                                                            current_price)
                                          THEN Append(kept, "quantity_raised")
                                          ELSE kept]
                  IN  IF quantity <= 0
                      THEN Return(h, orders, "error", "no_quantity")
                      ELSE IF available_balance <= 0
                      THEN Return(hs, orders, "error", "insufficient_balance")
                      ELSE \E min_leverage \in CeilOfQuotient(adjusted_notional, available_balance) :
                             LET check == LeverageCheck(adjusted_notional, loc.leverage,
                                                        available_balance, min_leverage)
                             IN  IF check = "insufficient"
                                 THEN Return(hs, orders, "error", "insufficient_balance")
                                 ELSE /\ pc' = "open_leverage"
                                      /\ h' = [hs EXCEPT !.sizing[1].leverage =
                                                   IF check = "raise" THEN min_leverage ELSE @,
                                                 !.sizing[1].note = (check = "raise"),
                                                 !.adjustments =
                                                   IF check = "raise"
                                                   THEN Append(@, "leverage_increased")
                                                   ELSE @]
                                      /\ loc' = [loc EXCEPT !.current_price = current_price,
                                                            !.quantity = quantity,
                                                            !.leverage =
                                                   IF check = "raise" THEN min_leverage ELSE @]
                                      /\ UNCHANGED orders

\* validate_order_params taking every order for valid
ValidateOrderParams_AlwaysValid(price, quantity) ==
    [valid |-> TRUE,
     adjusted_price |-> RoundHalfEven(price, TickSize),
     adjusted_quantity |-> RoundHalfEven(quantity, StepSize),
     errors |-> <<>>]

\* validate_order_params keeping only the first error it finds
ValidateOrderParams_FirstErrorOnly(price, quantity) ==
    LET adjusted_price == RoundHalfEven(price, TickSize)
        adjusted_quantity == RoundHalfEven(quantity, StepSize)
        notional == adjusted_price * adjusted_quantity
        errors == IF adjusted_price < MinPrice THEN <<"price">>
                  ELSE IF adjusted_quantity < MinQty THEN <<"quantity">>
                  ELSE IF notional < MinNotional THEN <<"notional">> ELSE <<>>
    IN  [valid |-> errors = <<>>,
         adjusted_price |-> adjusted_price,
         adjusted_quantity |-> adjusted_quantity,
         errors |-> errors]

\* validate_order_params: the adjusted price and quantity, and one error
\* appended for each bound they violate (price, quantity, notional, in this order)
ValidateOrderParams(price, quantity) ==
    LET adjusted_price == RoundHalfEven(price, TickSize)
        adjusted_quantity == RoundHalfEven(quantity, StepSize)
        notional == adjusted_price * adjusted_quantity
        errors == (IF adjusted_price < MinPrice THEN <<"price">> ELSE <<>>)
                  \o (IF adjusted_quantity < MinQty THEN <<"quantity">> ELSE <<>>)
                  \o (IF notional < MinNotional THEN <<"notional">> ELSE <<>>)
    IN  [valid |-> /\ ~(adjusted_price < MinPrice)
                   /\ ~(adjusted_quantity < MinQty)
                   /\ ~(notional < MinNotional),
         adjusted_price |-> adjusted_price,
         adjusted_quantity |-> adjusted_quantity,
         errors |-> errors]

\* steps 5-6: set_leverage, then the validation of the order
OpenSetLeverage ==
    /\ pc = "open_leverage"
    /\ UNCHANGED <<position_amt, mark_price, clientVars>>
    /\ \/ /\ account' = [account EXCEPT !.leverage = loc.leverage]
          /\ UNCHANGED faults
          /\ LET validation == ValidateOrderParams(loc.current_price, loc.quantity)
                 hl == [h EXCEPT !.req = Append(@, "set_leverage")]
                 hv == [hl EXCEPT !.sizing[1].errors = validation.errors]
             IN  IF ~validation.valid
                 THEN Return(hv, orders, "error", "validation_failed")
                 ELSE /\ pc' = "open_entry"
                      /\ h' = hl
                      /\ loc' = [loc EXCEPT !.quantity = validation.adjusted_quantity]
                      /\ UNCHANGED orders
       \/ /\ CanFail
          /\ faults' = faults + 1
          /\ Return(h, orders, "error", "unexpected")
          /\ UNCHANGED account

\* the entry order as place_order sends it
EntryRequest(side, order_type, quantity, price) ==
    [side       |-> side,
     type       |-> order_type,
     quantity   |-> FormatDecimal(quantity, StepSize, "ROUND_DOWN"),
     price      |-> FormatDecimal(price, TickSize, "ROUND_HALF_UP"),
     reduceOnly |-> FALSE]

\* steps 7-9: the entry order, the position read again, position_changed.  A
\* MARKET entry is filled when the position is read again, a LIMIT entry rests
\* on the book.
\* The entry order may raise, and so may the position read after it, which
\* leaves the function through its outer except with the order accepted.
OpenEntry ==
    /\ pc = "open_entry"
    /\ UNCHANGED <<mark_price, account, clientVars>>
    /\ LET buy_sell == IF loc.direction = "LONG" THEN "BUY" ELSE "SELL"
           order_type == IF Truthy(loc.entry_price) THEN "LIMIT" ELSE "MARKET"
           request == EntryRequest(buy_sell, order_type, loc.quantity, loc.entry_price)
           order == NewOrder(buy_sell, order_type, loc.quantity, None, FALSE)
           filled_amt == IF buy_sell = "BUY" THEN position_amt + request.quantity
                                             ELSE position_amt - request.quantity
           final_amt == IF order_type = "MARKET" THEN filled_amt ELSE position_amt
           final_orders == IF order_type = "MARKET" THEN orders ELSE Append(orders, order)
           total_quantity == IF Abs(final_amt) <= 0 THEN loc.quantity ELSE Abs(final_amt)
           position_changed == Abs(total_quantity - loc.old_quantity) > 0
           he == [h EXCEPT !.req = Append(@, "entry"), !.entry = <<request>>]
       IN  \/ /\ CanFail
              /\ faults' = faults + 1
              /\ Return(h, orders, "error", "unexpected")
              /\ UNCHANGED position_amt
           \/ /\ CanFail
              /\ faults' = faults + 1
              /\ position_amt' = final_amt
              /\ Return(he, final_orders, "error", "read_failed")
           \/ /\ position_amt' = final_amt
              /\ UNCHANGED faults
              /\ IF position_changed
                 THEN /\ pc' = "open_cancel"
                      /\ h' = he
                      /\ orders' = final_orders
                      /\ loc' = [loc EXCEPT !.open_orders = final_orders,
                                            !.quantity = total_quantity,
                                            !.idx = 1,
                                            !.attempt = 1]
                 ELSE Return(he, final_orders, "success", "position_unchanged")

\* a position of either direction or none, no order open, the account funded
InitOpen ==
    /\ position_amt \in {0, 100, -100}
    /\ mark_price = 10000
    /\ orders = <<>>
    /\ pc = "idle"
    /\ loc = NoLoc
    /\ h = NoHistory
    /\ faults = 0
    /\ account = FundedAccount
    /\ ClientIdle

NextOpen ==
    \/ \E direction \in {"LONG", "SHORT"}, size \in OpenSizes, lev \in OpenLeverages,
          ep \in EntryPrices :
          \E sl \in OpenSl(direction), tp \in OpenTp(direction) :
             OpenBegin(direction, size, lev, ep, sl, tp)
    \/ FlipClose
    \/ FlipVerify
    \/ FlipCancelAll
    \/ FreshCancelAll
    \/ OpenSize
    \/ OpenSetLeverage
    \/ OpenEntry
    \/ OpenCancelOld
    \/ PlaceSl
    \/ PlaceTp
    \/ EntryFill

SpecOpen == InitOpen /\ [][NextOpen]_vars

\* no position and no order, and an exchange that may fail every attempt of
\* one _place_sl_tp_with_retry call
InitRetry ==
    /\ position_amt = 0
    /\ mark_price = 10000
    /\ orders = <<>>
    /\ pc = "idle"
    /\ loc = NoLoc
    /\ h = NoHistory
    /\ faults = MaxFaults - MaxRetries
    /\ account = FundedAccount
    /\ ClientIdle

\* market entries with a stop-loss and a take-profit
NextRetry ==
    \/ \E direction \in {"LONG", "SHORT"}, size \in OpenSizes, lev \in OpenLeverages :
          \E sl \in OpenSl(direction) \ {None}, tp \in OpenTp(direction) :
             OpenBegin(direction, size, lev, None, sl, tp)
    \/ FlipClose
    \/ FlipVerify
    \/ FlipCancelAll
    \/ FreshCancelAll
    \/ OpenSize
    \/ OpenSetLeverage
    \/ OpenEntry
    \/ OpenCancelOld
    \/ PlaceSl
    \/ PlaceTp

SpecRetry == InitRetry /\ [][NextRetry]_vars

----------------------------------------------------------------------------
(* close_position and reduce_position *)

\* percentages a caller may pass
Percents == {0, 50, 100}

\* the record of a close_position / reduce_position call that starts now
HPercent(op, percent) ==
    [HBegin(op, None, None) EXCEPT !.pre = orders,
                                   !.call = <<[percent |-> percent]>>]

\* close_position: the check of percent and the read of the open orders.  The
\* part of a position is closed only while the position has a quantity of
\* Quantities.
ClosePosition(percent) ==
    /\ pc = "idle"
    /\ percent < 100 => Abs(position_amt) \in Quantities
    /\ UNCHANGED <<position_amt, mark_price, faults, account, clientVars>>
    /\ LET hb == HPercent("close_position", percent)
       IN  IF percent <= 0 \/ percent > 100
           THEN Return(hb, orders, "error", "percent")
           ELSE /\ pc' = "close_cancel"
                /\ h' = hb
                /\ loc' = [NoLoc EXCEPT !.op = "close_position",
                                        !.open_orders = orders,
                                        !.percent = percent,
                                        !.idx = 1]
                /\ UNCHANGED orders

\* step 1 with a failed cancel_order leaving the function through its outer except
CloseCancelOld_FailureRaises ==
    /\ pc = "close_cancel"
    /\ UNCHANGED <<position_amt, mark_price, account, clientVars>>
    /\ IF loc.idx > Len(loc.open_orders)
       THEN /\ pc' = "close_order"
            /\ UNCHANGED <<orders, loc, h, faults>>
       ELSE LET order == loc.open_orders[loc.idx]
                hc == [h EXCEPT !.cancelReq = Append(@, order.orderId),
                                !.req = Append(@, "cancel")]
            IN  IF order.reduceOnly
                THEN \/ /\ orders' = WithoutOrder(orders, order.orderId)
                        /\ h' = hc
                        /\ pc' = pc
                        /\ loc' = [loc EXCEPT !.idx = @ + 1]
                        /\ UNCHANGED faults
                     \/ /\ CanFail
                        /\ faults' = faults + 1
                        /\ Return(hc, orders, "error", "unexpected")
                ELSE /\ pc' = pc
                     /\ loc' = [loc EXCEPT !.idx = @ + 1]
                     /\ UNCHANGED <<orders, faults, h>>

\* step 1: the cancel loop over the reduce-only orders, a failure logged and
\* passed over
CloseCancelOld ==
    /\ pc = "close_cancel"
    /\ UNCHANGED <<position_amt, mark_price, account, clientVars>>
    /\ IF loc.idx > Len(loc.open_orders)
       THEN /\ pc' = "close_order"
            /\ UNCHANGED <<orders, loc, h, faults>>
       ELSE LET order == loc.open_orders[loc.idx]
            IN  /\ pc' = pc
                /\ loc' = [loc EXCEPT !.idx = @ + 1]
                /\ IF order.reduceOnly
                   THEN /\ h' = [h EXCEPT !.cancelReq = Append(@, order.orderId),
                                          !.req = Append(@, "cancel")]
                        /\ \/ /\ orders' = WithoutOrder(orders, order.orderId)
                              /\ UNCHANGED faults
                           \/ /\ CanFail
                              /\ faults' = faults + 1
                              /\ UNCHANGED orders
                   ELSE UNCHANGED <<orders, faults, h>>

\* step 2: client.close_position(symbol, percent)
CloseOrder ==
    /\ pc = "close_order"
    /\ UNCHANGED <<mark_price, account, clientVars>>
    /\ IF position_amt = 0
       THEN /\ Return(h, orders, "success", "no_position")
            /\ UNCHANGED <<position_amt, faults>>
       ELSE LET request == CloseRequest(position_amt, loc.percent)
            IN  \/ /\ position_amt' \in {AfterReduce(position_amt, request), position_amt}
                   /\ Return([h EXCEPT !.req = Append(@, "close"), !.close = <<request>>],
                             orders, "success", "closed")
                   /\ UNCHANGED faults
                \/ /\ CanFail
                   /\ faults' = faults + 1
                   /\ Return(h, orders, "error", "close_failed")
                   /\ UNCHANGED position_amt

\* reduce_position up to the market order: the check of reduce_pct, the
\* position read, the read of the protective orders
ReducePosition(reduce_pct) ==
    /\ pc = "idle"
    /\ reduce_pct < 100 => Abs(position_amt) \in Quantities
    /\ UNCHANGED <<position_amt, mark_price, faults, account, clientVars>>
    /\ LET hb == HPercent("reduce_position", reduce_pct)
           open_orders == orders
       IN  IF reduce_pct <= 0 \/ reduce_pct > 100
           THEN Return(hb, orders, "error", "percent")
           ELSE IF position_amt = 0
           THEN Return(hb, orders, "error", "no_position")
           ELSE /\ pc' = "reduce_order"
                /\ h' = hb
                /\ loc' = [NoLoc EXCEPT !.op = "reduce_position",
                                        !.open_orders = open_orders,
                                        !.percent = reduce_pct,
                                        !.sl = ExtractProtective(open_orders, "STOP_MARKET"),
                                        !.tp = ExtractProtective(open_orders, "TAKE_PROFIT_MARKET"),
                                        !.side = ClosingSide(position_amt)]
                /\ UNCHANGED orders

\* the reduce-only market order, then time.sleep(0.5) of line 1504: the module
\* imports no time (the other functions import it in their own bodies), so the
\* name is unbound, NameError is raised and the outer except returns the error;
\* the adjustment of the protective orders (lines 1506-1546) is never reached
ReduceOrder ==
    /\ pc = "reduce_order"
    /\ UNCHANGED <<mark_price, account, clientVars>>
    /\ LET request == CloseRequest(position_amt, loc.percent)
       IN  \/ /\ position_amt' \in {AfterReduce(position_amt, request), position_amt}
              /\ Return([h EXCEPT !.req = Append(@, "reduce"), !.close = <<request>>],
                        orders, "error", "name_error")
              /\ UNCHANGED faults
           \/ /\ CanFail
              /\ faults' = faults + 1
              /\ Return(h, orders, "error", "unexpected")
              /\ UNCHANGED position_amt

\* update_sl_tp_safe, close_position and reduce_position on a position
NextClose ==
    \/ \E sl \in ReqSl(position_amt), tp \in ReqTp(position_amt) : UpdateSlTpSafe(sl, tp)
    \/ SafeCancelOld
    \/ PlaceSl
    \/ PlaceTp
    \/ \E percent \in Percents : ClosePosition(percent)
    \/ CloseCancelOld
    \/ CloseOrder
    \/ \E reduce_pct \in Percents : ReducePosition(reduce_pct)
    \/ ReduceOrder

SpecClose == Init /\ [][NextClose]_vars

----------------------------------------------------------------------------
(* The sizing of the entry order, on a symbol with no position and no order *)

\* sizes (1.00, 7.00, 7.50 and 99.995), leverages (the leverage parameter is
\* an int the function does not validate: 0 and 200 are passed as they are)
\* and entry prices (None, off the tick, 300.00) a caller may pass, and
\* balances the account may have
SizingSizes == {10000, 70000, 75000, 999950}
SizingLeverages == {0, 1, 10, 200}
SizingEntryPrices == {None, 20, 10024, 30000}
Balances == {0, 700, 30000, 2000000}

InitSizing ==
    /\ position_amt = 0
    /\ mark_price = 10000
    /\ orders = <<>>
    /\ pc = "idle"
    /\ loc = NoLoc
    /\ h = NoHistory
    /\ faults = 0
    /\ account \in {[available_balance |-> b, leverage |-> 1] : b \in Balances}
    /\ ClientIdle

\* (price, quantity) validate_order_params is called with: all three bounds
\* violated, the notional alone (the price comes down to the tick), none
ValidateInputs == {<<20, 1>>, <<10024, 5>>, <<10000, 6>>}

\* validate_order_params called on its own, its result kept
CallValidate(price, quantity) ==
    /\ pc = "idle"
    /\ tool' = [name |-> "validate_order_params",
                args |-> <<price, quantity>>,
                result |-> ValidateOrderParams(price, quantity)]
    /\ UNCHANGED <<position_amt, mark_price, orders, pc, loc, h, faults, account, http, client,
                 graph>>

NextSizing ==
    \/ \E direction \in {"LONG", "SHORT"}, size \in SizingSizes, lev \in SizingLeverages,
          ep \in SizingEntryPrices :
             /\ position_amt = 0
             /\ orders = <<>>
             /\ OpenBegin(direction, size, lev, ep, None, None)
    \/ FreshCancelAll
    \/ OpenSize
    \/ OpenSetLeverage
    \/ OpenEntry
    \/ OpenCancelOld
    \/ \E input \in ValidateInputs : CallValidate(input[1], input[2])

SpecSizing == InitSizing /\ [][NextSizing]_vars

----------------------------------------------------------------------------
(* The exchange client's request loop (_request) *)

\* the highest max_retries a client of the model is built with (5 by default)
MaxClientRetries == 2

\* the latest timestamp the clock of the model shows
MaxClock == 3

\* recvWindow of a signed request
RecvWindow == 5000

\* the variables of the engine, which the exchange client does not touch
engineVars == <<position_amt, mark_price, orders, pc, loc, h, faults, account>>

\* a Python dict: its (key, value) pairs in insertion order.  Assigning to a
\* key that is there keeps its place, a new key goes last.
DictHas(d, k) == \E i \in 1..Len(d) : d[i][1] = k

DictDel(d, k) == SelectSeq(d, LAMBDA kv : kv[1] # k)

DictSet(d, k, v) ==
    IF DictHas(d, k)
    THEN [i \in 1..Len(d) |-> IF d[i][1] = k THEN <<k, v>> ELSE d[i]]
    ELSE Append(d, <<k, v>>)

DictGet(d, k) == d[CHOOSE i \in 1..Len(d) : d[i][1] = k][2]

\* _generate_signature: the HMAC-SHA256, keyed by the api secret, of the query
\* string "k=v&k=v..." of params in insertion order; two lists of parameters
\* that differ in a key, a value or the order have different signatures
GenerateSignature(params) == [hmac_sha256 |-> params]

\* the signing of an attempt that leaves the signature of the attempt before
\* in the parameters it signs
SignParams_KeepsSignature(params, timestamp) ==
    LET stamped == DictSet(DictSet(params, "timestamp", timestamp), "recvWindow", RecvWindow)
    IN  DictSet(stamped, "signature", GenerateSignature(stamped))

\* the signing of an attempt: the old signature removed, timestamp and
\* recvWindow set, the signature of the result added
SignParams(params, timestamp) ==
    LET unsigned == DictDel(params, "signature")
        stamped == DictSet(DictSet(unsigned, "timestamp", timestamp), "recvWindow", RecvWindow)
    IN  DictSet(stamped, "signature", GenerateSignature(stamped))

\* what an attempt may end in: a response with a body that parses, HTTP 429
\* (with no Retry-After header or one time.sleep accepts), HTTP 429 with a
\* Retry-After that time.sleep refuses (a negative number), another HTTP error
\* status, a timeout, a connection error, anything else (a body that does not
\* parse)
Responses ==
    {"200", "429", "429_bad_retry_after", "http_error", "timeout", "connection_error", "other"}

\* the rate-limit test that takes a timeout for one as well
IsRateLimit_OrTimeout(response) ==
    response \in {"429", "429_bad_retry_after", "timeout"}

\* response.status_code == 429, in the handler of HTTPError
IsRateLimit(response) == response \in {"429", "429_bad_retry_after"}

\* the retry test that lets the last attempt retry as well
ShouldRetry_OnceMore(attempt, max_retries) == attempt <= max_retries

\* attempt < self.max_retries
ShouldRetry(attempt, max_retries) == attempt < max_retries

\* parameters a caller hands to _request: none (get_account), and an order in
\* either insertion order
RequestParams ==
    {<<>>,
     <<<<"symbol", "X">>, <<"side", "BUY">>>>,
     <<<<"side", "BUY">>, <<"symbol", "X">>>>}

\* _request is called
Request(signed, params) ==
    /\ http.phase # "loop"
    /\ http' = [NoRequest EXCEPT !.phase = "loop", !.signed = signed,
                                 !.given = params, !.params = params]
    /\ UNCHANGED <<graph, engineVars, client, tool>>

\* the request is over: it returned the body or raised
RequestOver(hh, outcome) == http' = [hh EXCEPT !.phase = "done", !.outcome = outcome]

\* one pass of the loop: the parameters signed with a timestamp taken now,
\* the request sent, the response or the exception handled
AttemptRequest(response) ==
    /\ http.phase = "loop"
    /\ UNCHANGED <<graph, engineVars, tool>>
    /\ \E elapsed \in IF http.signed THEN {0, 1} ELSE {0} :
          LET timestamp == client.clock + elapsed
              params == IF http.signed THEN SignParams(http.params, timestamp)
                                       ELSE http.params
              hs == [http EXCEPT !.params = params,
                                 !.sent = Append(@, params),
                                 !.taken = Append(@, IF http.signed THEN timestamp ELSE None),
                                 !.responses = Append(@, response)]
          IN  /\ timestamp <= MaxClock
              /\ client' = [client EXCEPT !.clock = timestamp]
              /\ IF response = "200" THEN RequestOver(hs, "returned")
                 ELSE IF IsRateLimit(response)
                 THEN IF ShouldRetry(http.attempt, client.max_retries)
                      THEN IF response = "429_bad_retry_after"
                           THEN RequestOver(hs, "sleep_error")    \* time.sleep raises
                           ELSE IF http.attempt + 1 < client.max_retries + 1
                           THEN http' = [hs EXCEPT !.attempt = @ + 1]
                           ELSE RequestOver(hs, "exhausted")      \* the loop ran out
                      ELSE RequestOver(hs, "http_error")
                 ELSE RequestOver(hs, response)

\* a client built with some max_retries, nothing sent yet
InitRequest ==
    /\ position_amt = 0
    /\ mark_price = 10000
    /\ orders = <<>>
    /\ pc = "idle"
    /\ loc = NoLoc
    /\ h = NoHistory
    /\ faults = 0
    /\ account = FundedAccount
    /\ http = NoRequest
    /\ client \in {[NoClient EXCEPT !.max_retries = n] : n \in 0..MaxClientRetries}
    /\ tool = NoTool
    /\ graph = NoGraph

NextRequest ==
    \/ \E signed \in BOOLEAN, params \in RequestParams : Request(signed, params)
    \/ \E response \in Responses : AttemptRequest(response)

\* every attempt ends: the request is sent with a timeout (self.timeout), and
\* the sleep before a retry is finite
SpecRequest ==
    InitRequest /\ [][NextRequest]_vars /\ WF_vars(\E response \in Responses : AttemptRequest(response))

----------------------------------------------------------------------------
(* The symbol filters: get_symbol_filters, its cache, and the formatting of
   an order by place_order.  Prices and quantities are integers in units of
   0.01 here. *)

\* decimal places of the unit of this section
Scale == 2

\* the symbols asked for: X is listed by the exchange, Y is not
Symbols == {"X", "Y"}

\* what exchangeInfo may publish for X: a tick of 0.50 and a step of 0.01 at
\* two decimals; a tick of 0.50 and a step of 0.25 with precisions that are
\* coarser (0 and 1 decimals); a tick and a step of 0.10 with no pricePrecision
\* and no quantityPrecision in the listing
ExchangeListings ==
    {[tickSize |-> 50, stepSize |-> 1, pricePrecision |-> 2, quantityPrecision |-> 2],
     [tickSize |-> 50, stepSize |-> 25, pricePrecision |-> 0, quantityPrecision |-> 1],
     [tickSize |-> 10, stepSize |-> 10, pricePrecision |-> None, quantityPrecision |-> None]}

\* the filters get_symbol_filters builds from a listing: int(s.get(key, 0)) for
\* the precisions
ParseFilters(s) ==
    [tick_size |-> s.tickSize,
     step_size |-> s.stepSize,
     price_precision |-> IF s.pricePrecision = None THEN 0 ELSE s.pricePrecision,
     quantity_precision |-> IF s.quantityPrecision = None THEN 0 ELSE s.quantityPrecision]

\* the cache test that does not look at force_refresh
CacheHit_IgnoresRefresh(cache, symbol, force_refresh) == symbol \in DOMAIN cache

\* symbol in self._symbol_filters and not force_refresh
CacheHit(cache, symbol, force_refresh) == symbol \in DOMAIN cache /\ ~force_refresh

\* self._symbol_filters[symbol] = filters
Cached(cache, symbol, filters) ==
    [s \in DOMAIN cache \cup {symbol} |-> IF s = symbol THEN filters ELSE cache[s]]

\* the ways get_symbol_filters(symbol, force_refresh) may go: what it returns
\* (value, empty when it raised), the exchange requests it made, the cache it leaves.
\* The exchangeInfo request may fail; a symbol that is not listed raises.
LookupOutcomes(symbol, force_refresh) ==
    LET cache == client.symbol_filters
    IN  IF CacheHit(cache, symbol, force_refresh)
        THEN {[raised |-> FALSE, value |-> <<cache[symbol]>>, requests |-> 0, cache |-> cache]}
        ELSE {[raised |-> TRUE, value |-> <<>>, requests |-> 1, cache |-> cache]}
             \cup (IF symbol = "X"
                   THEN {[raised |-> FALSE,
                          value |-> <<ParseFilters(client.exchange_info)>>,
                          requests |-> 1,
                          cache |-> Cached(cache, symbol, ParseFilters(client.exchange_info))]}
                   ELSE {[raised |-> TRUE, value |-> <<>>, requests |-> 1, cache |-> cache]})

\* get_symbol_filters called by a user of the client
GetSymbolFilters(symbol, force_refresh) ==
    /\ \E outcome \in LookupOutcomes(symbol, force_refresh) :
          /\ client' = [client EXCEPT !.symbol_filters = outcome.cache]
          /\ tool' = [name |-> "get_symbol_filters",
                      args |-> <<symbol, force_refresh>>,
                      result |-> [raised |-> outcome.raised, value |-> outcome.value,
                                  requests |-> outcome.requests],
                      before |-> client.symbol_filters,
                      published |-> client.exchange_info]
    /\ UNCHANGED <<graph, engineVars, http>>

\* the exchange changes what it publishes for X
ExchangeUpdates ==
    /\ \E listing \in ExchangeListings \ {client.exchange_info} :
          client' = [client EXCEPT !.exchange_info = listing]
    /\ UNCHANGED <<graph, engineVars, http, tool>>

\* 10 ** n
Pow10(n) == IF n <= 0 THEN 1 ELSE IF n = 1 THEN 10 ELSE 100

\* Decimal('1').scaleb(-precision) in the unit of this section; a precision
\* finer than the unit rounds nothing here
Place(precision) == Pow10(Scale - precision)

\* the formatting that rounds every value half up
\* _format_decimal(value, step, precision, rounding): the value rounded to a
\* multiple of step, then to precision decimal places, both as rounding says
FormatWithPrecision(value, step, precision, rounding) ==
    LET Rounded(v, unit) == IF rounding = "ROUND_DOWN" THEN RoundDown(v, unit)
                                                       ELSE RoundHalfUp(v, unit)
        stepped == IF step # None /\ step > 0 THEN Rounded(value, step) ELSE value
    IN  IF value = None THEN None
        ELSE IF precision # None /\ precision >= 0
        THEN Rounded(stepped, Place(precision))
        ELSE stepped

\* quantities (0.80, 0.75), prices (None, 100.50, 100.24, 100.25) and trigger
\* prices (None, 101.40) place_order is called with
OrderQuantities == {80, 75}
OrderPrices == {None, 10050, 10024, 10025}
OrderStopPrices == {None, 10140}

\* place_order: the filters looked up (from the cache when they are there),
\* quantity, price and stopPrice formatted, the order transmitted
FormatOrder(quantity, price, stop_price) ==
    /\ \E outcome \in LookupOutcomes("X", FALSE) :
          /\ client' = [client EXCEPT !.symbol_filters = outcome.cache]
          /\ tool' = [name |-> "place_order",
                      args |-> <<quantity, price, stop_price>>,
                      result |->
                          IF outcome.raised
                          THEN [raised |-> TRUE]
                          ELSE [raised |-> FALSE,
                                filters |-> outcome.value[1],
                                quantity |-> FormatWithPrecision(quantity,
                                                 outcome.value[1].step_size,
                                                 outcome.value[1].quantity_precision,
                                                 "ROUND_DOWN"),
                                price |-> FormatWithPrecision(price,
                                                 outcome.value[1].tick_size,
                                                 outcome.value[1].price_precision,
                                                 "ROUND_HALF_UP"),
                                stopPrice |-> FormatWithPrecision(stop_price,
                                                 outcome.value[1].tick_size,
                                                 outcome.value[1].price_precision,
                                                 "ROUND_HALF_UP")]]
    /\ UNCHANGED <<graph, engineVars, http>>

\* a client with an empty cache, the exchange publishing some filters for X
InitFilters ==
    /\ position_amt = 0
    /\ mark_price = 10000
    /\ orders = <<>>
    /\ pc = "idle"
    /\ loc = NoLoc
    /\ h = NoHistory
    /\ faults = 0
    /\ account = FundedAccount
    /\ http = NoRequest
    /\ client \in {[NoClient EXCEPT !.exchange_info = listing] : listing \in ExchangeListings}
    /\ tool = NoTool
    /\ graph = NoGraph

NextFilters ==
    \/ \E symbol \in Symbols, force_refresh \in BOOLEAN : GetSymbolFilters(symbol, force_refresh)
    \/ ExchangeUpdates
    \/ \E quantity \in OrderQuantities, price \in OrderPrices, stop_price \in OrderStopPrices :
          FormatOrder(quantity, price, stop_price)

SpecFilters == InitFilters /\ [][NextFilters]_vars

----------------------------------------------------------------------------
(* The position readers (get_positions, _get_position_state,
   get_futures_position) and set_margin_mode.  A positionRisk answer is the
   sequence of the positionAmt strings of its entries; amounts are integers in
   units of 0.001 once parsed. *)

\* the longest positionRisk answer (one entry per positionSide)
MaxEntries == 3

\* the positionAmt strings an entry may carry
PositionAmts == {"0.000", "-0.0", "0.005", "-0.005"}

\* float(p['positionAmt'])
Float(s) ==
    CASE s = "0.000" -> 0
      [] s = "-0.0" -> 0
      [] s = "0.005" -> 5
      [] s = "-0.005" -> -5

\* the positionRisk answers for one symbol
PositionRisk == UNION {[1..n -> PositionAmts] : n \in 0..MaxEntries}

\* get_positions without its test of the amount
GetPositions_KeepsZero(data) == [i \in DOMAIN data |-> [position_amt |-> Float(data[i])]]

\* get_positions: the entries whose amount is not zero, parsed
GetPositions(data) ==
    LET NonZero(p) == Float(p) # 0
        kept == SelectSeq(data, NonZero)
    IN  [i \in DOMAIN kept |-> [position_amt |-> Float(kept[i])]]

\* _get_position_state: the state read from the first position listed
PositionStateOf(data) ==
    LET positions == GetPositions(data)
    IN  IF positions = <<>>
        THEN [has_position |-> FALSE, direction |-> "None", quantity |-> 0]
        ELSE LET amt == positions[1].position_amt
             IN  [has_position |-> amt # 0,
                  direction |-> IF amt > 0 THEN "LONG"
                                ELSE IF amt < 0 THEN "SHORT" ELSE "None",
                  quantity |-> Abs(amt)]

\* the result of get_futures_position
FuturesPositionOf(data) ==
    LET positions == GetPositions(data)
    IN  IF positions = <<>>
        THEN [position_exists |-> FALSE, position_amt |-> 0, side |-> "None"]
        ELSE [position_exists |-> TRUE,
              position_amt |-> positions[1].position_amt,
              side |-> PositionSide(positions[1].position_amt)]

\* a call of _get_position_state against what the exchange lists
GetPositionState(data) ==
    /\ tool' = [name |-> "_get_position_state", args |-> data, result |-> PositionStateOf(data)]
    /\ UNCHANGED <<graph, engineVars, http, client>>

\* a call of get_futures_position against what the exchange lists
GetFuturesPosition(data) ==
    /\ tool' = [name |-> "get_futures_position", args |-> data, result |-> FuturesPositionOf(data)]
    /\ UNCHANGED <<graph, engineVars, http, client>>

\* the code of the multi-assets rejection
MultiAssetsCode == -4168

\* what client.set_margin_type may do: return, raise an HTTPError whose
\* response body is a JSON object with a code, is not JSON, or is JSON that is
\* not an object, or raise something else
MarginOutcomes ==
    {[kind |-> "ok", code |-> 0],
     [kind |-> "http_object", code |-> MultiAssetsCode],
     [kind |-> "http_object", code |-> -4046],
     [kind |-> "http_not_json", code |-> 0],
     [kind |-> "http_not_object", code |-> 0],
     [kind |-> "timeout", code |-> 0]}

MarginTypes == {"ISOLATED", "CROSSED", "PORTFOLIO"}

\* the result of set_margin_mode when it returns one
MarginResult(success, margin_type, error) ==
    [raised |-> FALSE, success |-> success, margin_type |-> margin_type, error |-> error]

\* set_margin_mode(symbol, margin_type) when set_margin_type ends as outcome
SetMarginModeResult(margin_type, outcome) ==
    IF margin_type \notin {"ISOLATED", "CROSSED"}
    THEN MarginResult(FALSE, "None", "margin_type must be 'ISOLATED' or 'CROSSED'")
    ELSE CASE outcome.kind = "ok" -> MarginResult(TRUE, margin_type, "")
           [] outcome.kind = "http_object" ->
                IF outcome.code = MultiAssetsCode
                THEN MarginResult(TRUE, "CROSSED", "")
                ELSE MarginResult(FALSE, "None", "HTTPError")
           [] outcome.kind = "http_not_json" -> MarginResult(FALSE, "None", "HTTPError")
           [] outcome.kind = "http_not_object" ->
                [raised |-> TRUE, success |-> FALSE, margin_type |-> "None",
                 error |-> "AttributeError"]
           [] OTHER -> MarginResult(FALSE, "None", "Timeout")

\* a call of set_margin_mode
SetMarginMode(margin_type, outcome) ==
    /\ tool' = [name |-> "set_margin_mode", args |-> <<margin_type, outcome>>,
                result |-> SetMarginModeResult(margin_type, outcome)]
    /\ UNCHANGED <<graph, engineVars, http, client>>

InitTools ==
    /\ position_amt = 0
    /\ mark_price = 10000
    /\ orders = <<>>
    /\ pc = "idle"
    /\ loc = NoLoc
    /\ h = NoHistory
    /\ faults = 0
    /\ account = FundedAccount
    /\ ClientIdle

NextTools ==
    \/ \E data \in PositionRisk : GetPositionState(data)
    \/ \E data \in PositionRisk : GetFuturesPosition(data)
    \/ \E margin_type \in MarginTypes, outcome \in MarginOutcomes : SetMarginMode(margin_type, outcome)

SpecTools == InitTools /\ [][NextTools]_vars

----------------------------------------------------------------------------
(* prepare_trading_environment.  Quantities are in units of 0.001 as above. *)

\* the planned actions of a portfolio plan
NewActions == {"LONG", "SHORT", "HOLD", "EXIT", "REDUCE"}

\* an open order of the listings below
ListedOrder(id, side, type, quantity, stop_price, reduce_only) ==
    [orderId |-> id, side |-> side, type |-> type, origQty |-> quantity,
     stopPrice |-> stop_price, reduceOnly |-> reduce_only]

\* what get_open_orders may list for a position of signed quantity amt (or
\* none): nothing, a resting entry order, protective orders, and both in
\* either order
OpenOrderListings(amt) ==
    LET closing == IF amt >= 0 THEN "SELL" ELSE "BUY"
        entering == IF amt >= 0 THEN "BUY" ELSE "SELL"
        sl_price == IF amt >= 0 THEN 9000 ELSE 11000
        tp_price == IF amt >= 0 THEN 11000 ELSE 9000
        Entry(id) == ListedOrder(id, entering, "LIMIT", 100, 0, FALSE)
        Sl(id) == ListedOrder(id, closing, "STOP_MARKET", 100, sl_price, TRUE)
        Tp(id) == ListedOrder(id, closing, "TAKE_PROFIT_MARKET", 100, tp_price, TRUE)
    IN  {<<>>, <<Entry(1)>>, <<Sl(1)>>, <<Sl(1), Tp(2)>>,
         <<Entry(1), Sl(2), Tp(3)>>, <<Sl(1), Entry(2)>>}

\* step 1: has_position = abs(position_amt) > 0.0001
HasPosition(amt) == Abs(amt) * 10 > 1

\* step 1: current_direction
CurrentDirection(amt) == IF amt > 0 THEN "LONG" ELSE IF amt < 0 THEN "SHORT" ELSE "None"

\* step 2: protection_ok, the quantities of the last listed protective order
\* of each type less than 1% away from the position quantity
ProtectionOk(open_orders, quantity) ==
    /\ quantity > 0
    /\ Abs(ExistingQty(open_orders, "STOP_MARKET") - quantity) * 100 < QtyTolerancePct * quantity
    /\ Abs(ExistingQty(open_orders, "TAKE_PROFIT_MARKET") - quantity) * 100 < QtyTolerancePct * quantity

\* step 3: is_reversing
IsReversing(amt, new_action) ==
    /\ HasPosition(amt)
    /\ \/ CurrentDirection(amt) = "LONG" /\ new_action = "SHORT"
       \/ CurrentDirection(amt) = "SHORT" /\ new_action = "LONG"

\* step 3: the ids of the orders the cleanup asks to cancel, in their order:
\* all when reversing (scenario A), the orders that are not reduce-only when a
\* position is open (scenario B), all when there is no position (scenario C)
CleanupTargets(amt, new_action, open_orders) ==
    IF IsReversing(amt, new_action) THEN IdsOf(open_orders)
    ELSE IF HasPosition(amt)
    THEN SelectSeq(IdsOf(open_orders),
                   LAMBDA id : \E i \in 1..Len(open_orders) :
                                  open_orders[i].orderId = id /\ ~open_orders[i].reduceOnly)
    ELSE IdsOf(open_orders)

\* the orders left when the cancel requests for the ids of done went through
AfterCancels(ords, done) ==
    SelectSeq(ords, LAMBDA o : o.orderId \notin done)

\* prepare_trading_environment(symbol, new_action, stop_loss_price,
\* take_profit_price).  Step 2 calls the tool object update_sl_tp_safe with
\* three positional arguments, which the tool wrapper refuses with a TypeError;
\* the except of step 2 turns it into a warning and nothing is sent.  In step
\* 3 each cancel request goes through or fails and is passed over.
PrepareTradingEnvironment(new_action, stop_loss_price, take_profit_price) ==
    /\ pc = "idle"
    /\ LET has_position == HasPosition(position_amt)
           open_orders == orders
           quantity == Abs(position_amt)
           checks == has_position /\ (Truthy(stop_loss_price) \/ Truthy(take_profit_price))
           warned == checks /\ ~ProtectionOk(open_orders, quantity)
           targets == CleanupTargets(position_amt, new_action, open_orders)
       IN  \E failed \in SUBSET {targets[i] : i \in 1..Len(targets)} :
              /\ Cardinality(failed) <= MaxFaults
              /\ orders' = LET left == AfterCancels(orders, {targets[i] : i \in 1..Len(targets)} \ failed)
                           IN  Renamed(left, IdsOf(left))
              /\ tool' = [name |-> "prepare_trading_environment",
                          args |-> <<new_action, stop_loss_price, take_profit_price>>,
                          result |-> [ready |-> ~warned,
                                      has_position |-> has_position,
                                      position_side |-> CurrentDirection(position_amt),
                                      is_reversing |-> IsReversing(position_amt, new_action),
                                      warnings |-> IF warned THEN <<"Exception updating SL/TP">>
                                                             ELSE <<>>],
                          before |-> open_orders,
                          requested |-> targets]
    /\ UNCHANGED <<position_amt, mark_price, pc, loc, h, faults, account, http, client, graph>>

\* the exchange lists other orders for the symbol
OrdersChange ==
    /\ pc = "idle"
    /\ \E listing \in OpenOrderListings(position_amt) \ {orders} : orders' = listing
    /\ tool' = NoTool
    /\ UNCHANGED <<position_amt, mark_price, pc, loc, h, faults, account, http, client, graph>>

InitPrepare ==
    /\ position_amt \in {0, 100, -100}
    /\ mark_price = 10000
    /\ orders \in OpenOrderListings(position_amt)
    /\ pc = "idle"
    /\ loc = NoLoc
    /\ h = NoHistory
    /\ faults = 0
    /\ account = FundedAccount
    /\ ClientIdle

NextPrepare ==
    \/ \E new_action \in NewActions :
          \E sl \in OpenSl(new_action), tp \in OpenTp(new_action) :
             PrepareTradingEnvironment(new_action, sl, tp)
    \/ OrdersChange

SpecPrepare == InitPrepare /\ [][NextPrepare]_vars

----------------------------------------------------------------------------
(* The decision cycle: risk_manager -> portfolio_manager -> trader, the first
   and the last with a tool node of their own.  A message is kept as its
   kind: "human", "ai" (no tool calls), "ai_tool_calls", and for a tool
   message what its JSON content carries: "research_report" (a non-empty
   research_report and no error), "research_error" (a research_report key
   with an error or with an empty report), "tool" (no research_report key).
   A text the language model returns is kept as "" or as its name. *)

\* the steps of one cycle (recursion_limit is 150)
RecursionLimit == 7

\* the messages a tool node can append for the risk manager's tool calls
ToolMessageKinds == {"research_report", "research_error", "tool"}

\* one tool message for each tool call of an answer, which holds one or two
ToolResults ==
    UNION {[1..n -> ToolMessageKinds] : n \in {1, 2}}

\* the cycle carries a JSON tool message with a non-empty research_report
ResearchObtained(messages) ==
    \E i \in 1..Len(messages) : messages[i] = "research_report"

\* the scan of state["messages"][-5:], latest first: the first message whose
\* JSON content has a research_report key ends it; its report is taken when it
\* has no error and the report is not empty
ScanResearchReport(messages) ==
    LET first == IF Len(messages) > 5 THEN Len(messages) - 4 ELSE 1
        found == {i \in first..Len(messages) :
                      messages[i] \in {"research_report", "research_error"}}
    IN  IF found = {} THEN ""
        ELSE IF messages[Max(found)] = "research_report" THEN "report" ELSE ""

\* the conditional edge behind risk_manager and behind trader
RouteAfter(messages, tools_node, next_node) ==
    IF messages # <<>> /\ messages[Len(messages)] = "ai_tool_calls"
    THEN tools_node ELSE next_node

\* an exception leaves graph.stream: run_trading_strategy logs it, the cycle ends
Aborted(error) ==
    graph' = [graph EXCEPT !.node = "aborted", !.error = error]

\* a node returned update; the edge behind it leads to node
Stepped(update, node) ==
    graph' = [update EXCEPT !.node = node, !.steps = @ + 1]

\* run_trading_strategy: the initial state, the entry point
RunTradingStrategy ==
    /\ graph.node \in {"", "END", "aborted"}
    /\ graph' = [node |-> "risk_manager",
                 messages |-> <<"human">>,
                 technical_research_report |-> "",
                 risk_assessment |-> "",
                 portfolio_plan |-> "",
                 error |-> "",
                 steps |-> 0]
    /\ UNCHANGED <<engineVars, http, client, tool>>

\* risk_manager_node: the scan, the language model's answer, the validation
\* once the answer holds no tool call
RiskManagerNode ==
    /\ graph.node = "risk_manager"
    /\ graph.steps < RecursionLimit
    /\ UNCHANGED <<engineVars, http, client, tool>>
    /\ LET technical_research_report == ScanResearchReport(graph.messages)
       IN  \/ LET messages == Append(graph.messages, "ai_tool_calls")
              IN  Stepped([graph EXCEPT
                               !.messages = messages,
                               !.risk_assessment = "",
                               !.technical_research_report = technical_research_report],
                          RouteAfter(messages, "risk_manager_tools", "portfolio_manager"))
           \/ \E risk_assessment \in {"", "assessment"} :
                  IF technical_research_report = ""
                  THEN Aborted("RuntimeError")
                  ELSE LET messages == Append(graph.messages, "ai")
                       IN  Stepped([graph EXCEPT
                                        !.messages = messages,
                                        !.risk_assessment = risk_assessment,
                                        !.technical_research_report =
                                            technical_research_report],
                                   RouteAfter(messages, "risk_manager_tools",
                                              "portfolio_manager"))

\* risk_manager_tools: one tool message for each tool call, back to risk_manager
RiskManagerTools ==
    /\ graph.node = "risk_manager_tools"
    /\ graph.steps < RecursionLimit
    /\ UNCHANGED <<engineVars, http, client, tool>>
    /\ \E results \in ToolResults :
           Stepped([graph EXCEPT !.messages = @ \o results], "risk_manager")

\* portfolio_manager_node going on whatever reports the state holds
PortfolioManagerNode_Unchecked ==
    /\ graph.node = "portfolio_manager"
    /\ graph.steps < RecursionLimit
    /\ UNCHANGED <<engineVars, http, client, tool>>
    /\ \E portfolio_plan \in {"", "plan"} :
           Stepped([graph EXCEPT !.messages = Append(@, "ai"),
                                 !.portfolio_plan = portfolio_plan],
                   "trader")

\* portfolio_manager_node: both reports required, then the plan
PortfolioManagerNode ==
    /\ graph.node = "portfolio_manager"
    /\ graph.steps < RecursionLimit
    /\ UNCHANGED <<engineVars, http, client, tool>>
    /\ IF graph.technical_research_report = "" \/ graph.risk_assessment = ""
       THEN Aborted("ValueError")
       ELSE \E portfolio_plan \in {"", "plan"} :
                Stepped([graph EXCEPT !.messages = Append(@, "ai"),
                                      !.portfolio_plan = portfolio_plan],
                        "trader")

\* the trader node as the graph sees it: its answer holds tool calls or it
\* does not
TraderNode ==
    /\ graph.node = "trader"
    /\ graph.steps < RecursionLimit
    /\ UNCHANGED <<engineVars, http, client, tool>>
    /\ \E answer \in {"ai_tool_calls", "ai"} :
           LET messages == Append(graph.messages, answer)
           IN  Stepped([graph EXCEPT !.messages = messages],
                       RouteAfter(messages, "trader_tools", "END"))

\* trader_tools: the tool message, back to trader
TraderTools ==
    /\ graph.node = "trader_tools"
    /\ graph.steps < RecursionLimit
    /\ UNCHANGED <<engineVars, http, client, tool>>
    /\ Stepped([graph EXCEPT !.messages = Append(@, "tool")], "trader")

\* the cycle has taken recursion_limit steps and is not at its end
RecursionLimitReached ==
    /\ graph.node \notin {"", "END", "aborted"}
    /\ graph.steps >= RecursionLimit
    /\ Aborted("GraphRecursionError")
    /\ UNCHANGED <<engineVars, http, client, tool>>

InitGraph ==
    /\ position_amt = 0
    /\ mark_price = 10000
    /\ orders = <<>>
    /\ pc = "idle"
    /\ loc = NoLoc
    /\ h = NoHistory
    /\ faults = 0
    /\ account = FundedAccount
    /\ ClientIdle

NextGraph ==
    \/ RunTradingStrategy
    \/ RiskManagerNode
    \/ RiskManagerTools
    \/ PortfolioManagerNode
    \/ TraderNode
    \/ TraderTools
    \/ RecursionLimitReached

SpecGraph == InitGraph /\ [][NextGraph]_vars

----------------------------------------------------------------------------
(* Properties of the protective order manager *)

\* an update_sl_tp_safe call on an open position has returned and nothing
\* happened since
SafeReturned ==
    /\ pc = "idle"
    /\ h.op = "update_sl_tp_safe"
    /\ h.result # "running"
    /\ h.prePos # 0

\* the open reduce-only orders of a type among ords
Protective(ords, type) == {ords[i] : i \in ProtectiveIdx(ords, type)}

StopPrices(ords, type) == {o.stopPrice : o \in Protective(ords, type)}

IsOpen(order) == \E i \in 1..Len(orders) : orders[i] = order

\* the trigger price place_sl_tp_orders and place_order send for price
Sent(price) == FormatDecimal(AlignPrice(price), TickSize, "ROUND_HALF_UP")

\* the call left the open orders as they were and sent no order request
NothingSent == orders = h.pre /\ h.placed = <<>> /\ h.cancelReq = <<>>

PlaceBeforeCancel ==
    (h.op = "update_sl_tp_safe" /\ h.prePos # 0) =>
        /\ h.cancelReq # <<>> =>
             /\ Truthy(h.sl) => Sent(h.sl) \in StopPrices(h.placed, "STOP_MARKET")
             /\ Truthy(h.tp) => Sent(h.tp) \in StopPrices(h.placed, "TAKE_PROFIT_MARKET")
        /\ h.preSl => Protective(orders, "STOP_MARKET") # {}

\* C3: when placing the new orders raised in update_sl_tp_safe, the call
\* returned "error", sent no cancel request, and every protective order open
\* before the call is still open.
PlacementFailureKeepsOld ==
    (SafeReturned /\ h.reason = "place_failed") =>
        /\ h.result = "error"
        /\ h.cancelReq = <<>>
        /\ \A i \in 1..Len(h.pre) : h.pre[i].reduceOnly => IsOpen(h.pre[i])

\* the placement raised with a stop-loss and a take-profit open before the call
PlacementFailedWithOldOrders ==
    /\ SafeReturned
    /\ h.reason = "place_failed"
    /\ Protective(h.pre, "STOP_MARKET") # {}
    /\ Protective(h.pre, "TAKE_PROFIT_MARKET") # {}

\* what the call read before its checks
ExistingSl == ExtractProtective(h.pre, "STOP_MARKET")

ExistingTp == ExtractProtective(h.pre, "TAKE_PROFIT_MARKET")

Requested(type) == IF type = "STOP_MARKET" THEN h.sl ELSE h.tp

\* the mark price is less than permille thousandths of itself away from trigger
Near(trigger, permille) ==
    /\ trigger # None
    /\ Abs(mark_price - trigger) * 1000 < permille * mark_price

\* the requested stop-loss does not loosen the one the call read
TrailingValid ==
    \/ ~Truthy(h.sl)
    \/ ExistingSl = None
    \/ h.prePos > 0 /\ h.sl >= ExistingSl
    \/ h.prePos < 0 /\ h.sl <= ExistingSl

\* C4: while and after an operation other than a close runs on a position that
\* had a reduce-only stop-loss order open, a stop-loss order is open.
NoExposureWindow ==
    (/\ h.op \in {"update_sl_tp", "update_sl_tp_safe", "open_position"}
     /\ h.preSl
     /\ h.prePos # 0
     /\ position_amt # 0)
        => Protective(orders, "STOP_MARKET") # {}

\* C5: over update_sl_tp_safe calls alone, on a position that does not change,
\* every stop-loss order a call places is at or beyond (at or above for LONG, at
\* or below for SHORT) every stop-loss order open when the call started and
\* every stop-loss order the calls before it had open or placed.
StopLossOnlyTightens ==
    (h.op = "update_sl_tp_safe" /\ h.prePos # 0 /\ h.floor # None) =>
        \A new \in Protective(h.placed, "STOP_MARKET") :
            /\ h.prePos > 0 => new.stopPrice >= h.floor
            /\ h.prePos < 0 => new.stopPrice <= h.floor

\* C6: a call that repeats the last call (each leg a price or None), which
\* returned "updated", with nothing moved in between, returns "skipped" and
\* places no order.
RepeatedCallSkips ==
    (SafeReturned /\ h.repeat /\ h.sl # 0 /\ h.tp # 0) =>
        (h.result = "skipped" /\ h.placed = <<>>)

\* C7: the checks return in the order trailing stop, danger zone, already
\* optimal: a loosening request in the danger zone is rejected, and a request
\* that matches the open orders in the danger zone is the danger-zone skip.
ChecksInOrder ==
    SafeReturned =>
        LET danger == InDangerZone(mark_price, ExistingSl, ExistingTp)
            match  == PricesMatch(ExistingSl, ExistingTp, h.sl, h.tp, h.pre, Abs(h.prePos))
        IN  /\ (~TrailingValid /\ danger) => h.result = "rejected"
            /\ (TrailingValid /\ danger /\ match) =>
                   (h.result = "skipped" /\ h.reason = "danger_zone")
            /\ (TrailingValid /\ ~danger /\ match) =>
                   (h.result = "skipped" /\ h.reason = "already_optimal")

\* a loosening request was made in the danger zone
LooseningInDangerZone ==
    /\ SafeReturned
    /\ ~TrailingValid
    /\ InDangerZone(mark_price, ExistingSl, ExistingTp)
    /\ h.result = "rejected"

\* C8: with the mark price less than 0.5% from the stop-loss read or less than
\* 0.2% from the take-profit read, a call that does not loosen the stop-loss
\* returns "skipped", places nothing and cancels nothing.
DangerZoneSkips ==
    (/\ SafeReturned
     /\ TrailingValid
     /\ Near(ExistingSl, SlDangerPerMille) \/ Near(ExistingTp, TpDangerPerMille))
        => (h.result = "skipped" /\ NothingSent)

\* a call asking for new prices was made with only the take-profit near
SkippedNearTakeProfit ==
    /\ SafeReturned
    /\ TrailingValid
    /\ Near(ExistingTp, TpDangerPerMille)
    /\ ~Near(ExistingSl, SlDangerPerMille)
    /\ Truthy(h.sl) /\ h.sl # ExistingSl
    /\ h.result = "skipped"

\* C9: after a call that returned "updated", a leg whose price was left None
\* and that had an order open before has a new order open at the trigger price
\* read, for the position quantity.
NonePreservesLeg ==
    (SafeReturned /\ h.result = "updated") =>
        \A type \in {"STOP_MARKET", "TAKE_PROFIT_MARKET"} :
            (Requested(type) = None /\ Protective(h.pre, type) # {}) =>
                \E o \in Protective(h.placed, type) :
                    /\ IsOpen(o)
                    /\ o.stopPrice = ExtractProtective(h.pre, type)
                    /\ o.origQty = Abs(position_amt)

\* a take-profit was set with the stop-loss left None, a stop-loss open
UpdatedWithStopLossNone ==
    /\ SafeReturned
    /\ h.result = "updated"
    /\ h.sl = None
    /\ Truthy(h.tp)
    /\ ExistingSl # None

\* a protective order of the type, open when the call started, has a quantity
\* that differs from the position quantity by more than 1%
QtyOff(type) ==
    \E o \in Protective(h.pre, type) :
        Abs(o.origQty - Abs(h.prePos)) * 100 > QtyTolerancePct * Abs(h.prePos)

\* C10: a call that passes the trailing-stop and danger-zone checks on a
\* position whose protective orders have another quantity (by more than 1%)
\* does not skip, and when it returns "updated" it has placed an order for the
\* position quantity for every leg that was open and asked to cancel the old ones.
QuantityReconciled ==
    (/\ SafeReturned
     /\ TrailingValid
     /\ ~InDangerZone(mark_price, ExistingSl, ExistingTp)
     /\ QtyOff("STOP_MARKET") \/ QtyOff("TAKE_PROFIT_MARKET"))
        => /\ h.result \in {"updated", "error"}
           /\ h.result = "updated" =>
                /\ \A i \in 1..Len(h.placed) : h.placed[i].origQty = Abs(position_amt)
                /\ \A type \in {"STOP_MARKET", "TAKE_PROFIT_MARKET"} :
                     Protective(h.pre, type) # {} =>
                         \E o \in Protective(h.placed, type) : IsOpen(o)
                /\ \A i \in 1..Len(h.pre) :
                     h.pre[i].reduceOnly =>
                         \E j \in 1..Len(h.cancelReq) : h.cancelReq[j] = h.pre[i].orderId

----------------------------------------------------------------------------
(* Properties of open_long_position / open_short_position *)

\* an open_*_position call, whole operation, has started
Opening == h.op = "open_position" /\ h.call # <<>>

\* the call found a position of the other direction
Flipping == Opening /\ h.prePos # 0 /\ PositionSide(h.prePos) # h.call[1].direction

\* the call found a position of its own direction
Adding == Opening /\ h.prePos # 0 /\ PositionSide(h.prePos) = h.call[1].direction

\* the position has the direction the call asked for
EntryFilled == position_amt # 0 /\ PositionSide(position_amt) = h.call[1].direction

IsPrefix(s, t) == Len(s) <= Len(t) /\ \A i \in 1..Len(s) : s[i] = t[i]

Sends(tag) == \E i \in 1..Len(h.req) : h.req[i] = tag

\* the requests of a call that closes an opposite position, in their order
FlipSequence == <<"close", "read_flat", "cancel_all", "set_leverage", "entry">>

\* C11: a call that found the opposite position sends, in this order, a
\* reduce-only market order for the whole opposite quantity on its closing side,
\* a position read that finds no position, cancel-all, and then (after the
\* leverage) the entry order; a read that still finds the position ends the
\* call, and the opposite position is gone whenever cancel-all was sent.
FlipClosesFirst ==
    Flipping =>
        /\ IsPrefix(h.req, FlipSequence) \/ h.req = <<"close", "read_open">>
        /\ h.close # <<>> => h.close[1] = [side |-> ClosingSide(h.prePos),
                                           type |-> "MARKET",
                                           quantity |-> Abs(h.prePos),
                                           price |-> None,
                                           reduceOnly |-> TRUE]
        /\ Sends("cancel_all") =>
               ~(position_amt # 0 /\ PositionSide(position_amt) = PositionSide(h.prePos))

\* the entry order of a call that closed a SHORT position has been sent
FlippedToLong ==
    /\ Flipping
    /\ h.prePos < 0
    /\ h.req = FlipSequence
    /\ h.entry # <<>>

\* C12: after a call that closed the opposite position, returned success and
\* whose entry is filled, every leg a price was given for has a reduce-only
\* order open at that price for the quantity of the new position, as after an
\* open on a symbol with no position.
FlipOpensAsFresh ==
    (/\ pc = "idle"
     /\ Flipping
     /\ h.result = "success"
     /\ h.reason # "sl_tp_failed"
     /\ EntryFilled)
        => \A type \in {"STOP_MARKET", "TAKE_PROFIT_MARKET"} :
               Truthy(Requested(type)) =>
                   \E o \in Protective(orders, type) :
                       /\ o.origQty = Abs(position_amt)
                       /\ o.stopPrice = Sent(Requested(type))

\* C13: a call that found a position of its own direction sends no close
\* order, and when it returns success with the position quantity changed, every
\* open reduce-only order has the quantity of the position and every leg that
\* had a protective order before the call has one.
AddResyncsProtection ==
    Adding =>
        /\ h.close = <<>>
        /\ (pc = "idle" /\ h.result = "success" /\ Abs(position_amt) # Abs(h.prePos)) =>
               /\ \A i \in 1..Len(orders) :
                      orders[i].reduceOnly => orders[i].origQty = Abs(position_amt)
               /\ \A type \in {"STOP_MARKET", "TAKE_PROFIT_MARKET"} :
                      Protective(h.pre, type) # {} => Protective(orders, type) # {}

----------------------------------------------------------------------------
(* Properties of reduce_position and close_position *)

\* a reduce_position call on an open position with a percentage p, 0 < p < 100,
\* has returned and its market order was accepted
Reduced ==
    /\ pc = "idle"
    /\ h.op = "reduce_position"
    /\ h.prePos # 0
    /\ h.call[1].percent > 0 /\ h.call[1].percent < 100
    /\ h.close # <<>>

\* the position had a protective order open when the call started
HadProtection ==
    Protective(h.pre, "STOP_MARKET") \cup Protective(h.pre, "TAKE_PROFIT_MARKET") # {}

\* C14: a reduce_position call with 0 < p < 100 on a position with protective
\* orders, whose reduce-only market order (quantity Q * p / 100, closing side)
\* was accepted and filled, reports success, and on return every leg that was
\* open has an order for the new position quantity at the trigger price read
\* before, and no protective order of another quantity is open.
ReduceResyncs ==
    (Reduced /\ HadProtection /\ Abs(position_amt) < Abs(h.prePos)) =>
        /\ h.close[1] = [side |-> ClosingSide(h.prePos),
                         type |-> "MARKET",
                         quantity |-> (Abs(h.prePos) * h.call[1].percent) \div 100,
                         price |-> None,
                         reduceOnly |-> TRUE]
        /\ h.result = "success"
        /\ \A type \in {"STOP_MARKET", "TAKE_PROFIT_MARKET"} :
               /\ \A o \in Protective(orders, type) : o.origQty = Abs(position_amt)
               /\ Protective(h.pre, type) # {} =>
                      \E o \in Protective(orders, type) :
                          o.stopPrice = ExtractProtective(h.pre, type)

\* C15: the protective orders open when reduce_position started are open while
\* its market order is sent, and when the call returns after an accepted market
\* order without having placed new protective orders, it reports success and
\* those orders are still open.
ReduceKeepsOldProtection ==
    /\ (pc = "reduce_order") => orders = h.pre
    /\ (Reduced /\ HadProtection /\ h.placed = <<>>) =>
           /\ h.result = "success"
           /\ \A i \in 1..Len(h.pre) : h.pre[i].reduceOnly => IsOpen(h.pre[i])

\* a close_position call with a valid percentage has started
Closing ==
    /\ h.op = "close_position"
    /\ h.call[1].percent > 0 /\ h.call[1].percent <= 100

----------------------------------------------------------------------------
(* Properties of the sizing *)

\* what the call was asked for and what its sizing read
Call == h.call[1]

Sizing == h.sizing[1]

\* the price the entry order trades at: its limit price as sent, or the mark price
EntryPriceSent == IF h.entry[1].price # None THEN h.entry[1].price ELSE mark_price

\* C17: the quantity of the entry order is the smallest multiple of the step
\* size at or above max(N / P, min_qty, min_notional / P), for a size N > 0 and a
\* sizing price P (the quantities as numerators over P).
EntryQuantityIsCeiling ==
    (Opening /\ h.entry # <<>> /\ Call.position_size_usd > 0) =>
        h.entry[1].quantity =
            CeilDiv(Max({Call.position_size_usd, MinQty * Sizing.current_price, MinNotional}),
                    Sizing.current_price * StepSize) * StepSize

LeverageRaisedToMinimum ==
    (Opening /\ h.sizing # <<>> /\ Sizing.available_balance > 0) =>
        LET exceeds == Sizing.adjusted_notional > Sizing.available_balance * Call.leverage
            minimum == CeilDiv(Sizing.adjusted_notional, Sizing.available_balance)
        IN  /\ (Sends("set_leverage") /\ exceeds /\ minimum <= MaxLeverage) =>
                   /\ account.leverage = minimum
                   /\ Sizing.adjusted_notional <= account.leverage * Sizing.available_balance
                   /\ Sizing.note
            /\ (Sends("set_leverage") /\ ~exceeds) =>
                   (account.leverage = Call.leverage /\ ~Sizing.note)
            /\ (pc = "idle" /\ exceeds /\ minimum <= MaxLeverage) =>
                   h.reason # "insufficient_balance"

\* C20: a call whose sizing finds the available balance not positive, or the
\* minimum leverage ceil(adjusted_notional / available_balance) above 125,
\* returns the insufficient-balance error, has sent no set_leverage request and
\* no entry order, and the leverage on the exchange is what it was.
InsufficientBalanceStops ==
    (/\ Opening
     /\ pc = "idle"
     /\ h.sizing # <<>>
     /\ \/ Sizing.available_balance <= 0
        \/ CeilDiv(Sizing.adjusted_notional, Sizing.available_balance) > MaxLeverage)
        => /\ h.result = "error"
           /\ h.reason = "insufficient_balance"
           /\ ~Sends("set_leverage")
           /\ h.entry = <<>>
           /\ account.leverage = Call.exchange_leverage

----------------------------------------------------------------------------
(* Properties of the validation *)

\* the exchange bounds the adjusted price and quantity violate
ViolatedBounds(price, quantity) ==
    LET adjusted_price == RoundHalfEven(price, TickSize)
        adjusted_quantity == RoundHalfEven(quantity, StepSize)
    IN  (IF adjusted_price < MinPrice THEN {"price"} ELSE {})
        \cup (IF adjusted_quantity < MinQty THEN {"quantity"} ELSE {})
        \cup (IF adjusted_price * adjusted_quantity < MinNotional THEN {"notional"} ELSE {})

\* errors names each bound of S once and nothing else
Itemizes(errors, S) ==
    /\ {errors[i] : i \in 1..Len(errors)} = S
    /\ Len(errors) = Cardinality(S)

\* C21: validate_order_params returns (never raises) valid = false exactly
\* when the adjusted price is below min_price, the adjusted quantity below
\* min_qty or the notional below min_notional, with one error for each bound
\* violated; and an open whose validation finds a bound violated returns an
\* error result that carries those errors, with no entry order sent.
ValidationFailureReturned ==
    /\ tool.name = "validate_order_params" =>
           LET violated == ViolatedBounds(tool.args[1], tool.args[2])
           IN  /\ tool.result.valid = (violated = {})
               /\ Itemizes(tool.result.errors, violated)
    /\ (Opening /\ pc = "idle" /\ Sends("set_leverage")) =>
           LET violated == ViolatedBounds(Sizing.current_price, Sizing.quantity)
           IN  violated # {} =>
                   /\ h.result = "error"
                   /\ h.reason = "validation_failed"
                   /\ Itemizes(Sizing.errors, violated)
                   /\ h.entry = <<>>

\* validate_order_params found all three bounds violated, and an open was
\* refused for two of them
RefusedForTwoBounds ==
    /\ tool.name = "validate_order_params"
    /\ Len(tool.result.errors) = 3
    /\ Opening
    /\ pc = "idle"
    /\ h.reason = "validation_failed"
    /\ Len(Sizing.errors) = 2

----------------------------------------------------------------------------
(* Properties of the request loop *)

\* an attempt that ended in HTTP 429
Got429(i) == http.responses[i] \in {"429", "429_bad_retry_after"}

\* the request is sent once for every response, at most max_retries + 1 times;
\* every attempt but the first follows an attempt that ended in HTTP 429; and
\* after max_retries + 1 attempts that all ended in HTTP 429 the request is
\* over and has raised the HTTP error
RequestBounded ==
    /\ Len(http.sent) = Len(http.responses)
    /\ Len(http.sent) <= client.max_retries + 1
    /\ \A i \in 2..Len(http.sent) : Got429(i - 1)
    /\ (/\ Len(http.responses) = client.max_retries + 1
        /\ \A i \in 1..Len(http.responses) : Got429(i))
           => (http.phase = "done" /\ http.outcome = "http_error")

\* C22: the request loop ends whatever the responses are (a request that is
\* being sent is over at some point), a request is sent at most max_retries + 1
\* times, an attempt after the first is made only after an HTTP 429, and
\* after max_retries + 1 HTTP 429 in a row the HTTP error is raised.
RequestLoopTerminates ==
    /\ []RequestBounded
    /\ (http.phase = "loop") ~> (http.phase = "done")

\* max_retries + 1 attempts were made, and the request was retried at least once
RetriesExhausted ==
    /\ http.phase = "done"
    /\ client.max_retries >= 1
    /\ Len(http.sent) = client.max_retries + 1
    /\ \A i \in 1..Len(http.responses) : Got429(i)
    /\ http.outcome = "http_error"

\* C23: an attempt that ended in an HTTP error other than 429, in a timeout or
\* in a connection error is the last one sent: the request is over, it raised
\* that error, and nothing was transmitted after it.
NoRetryAfterFailure ==
    \A i \in 1..Len(http.responses) :
        http.responses[i] \in {"http_error", "timeout", "connection_error"} =>
            /\ i = Len(http.responses)
            /\ Len(http.sent) = i
            /\ http.phase = "done"
            /\ http.outcome = http.responses[i]

\* an order was sent twice, and the second attempt timed out
OrderTimedOutOnRetry ==
    /\ http.signed
    /\ DictHas(http.given, "side")
    /\ http.responses = <<"429", "timeout">>
    /\ http.phase = "done"

\* the places of the key k in the dict d
KeyPlaces(d, k) == {i \in 1..Len(d) : d[i][1] = k}

\* C24: every attempt of a signed request carries one signature, which is the
\* signature of all the other parameters of that attempt in their order; these
\* are the parameters of the caller in the order given, then the timestamp
\* taken for this attempt and recvWindow; an unsigned request carries none.
EveryAttemptSigned ==
    \A i \in 1..Len(http.sent) :
        LET params == http.sent[i]
            others == DictDel(params, "signature")
        IN  IF http.signed
            THEN /\ Cardinality(KeyPlaces(params, "signature")) = 1
                 /\ DictGet(params, "signature") = GenerateSignature(others)
                 /\ others = http.given \o <<<<"timestamp", http.taken[i]>>,
                                             <<"recvWindow", RecvWindow>>>>
            ELSE params = http.given

\* a signed request was retried, with a later timestamp and another signature
ResignedOnRetry ==
    /\ http.signed
    /\ Len(http.sent) >= 2
    /\ http.taken[2] > http.taken[1]
    /\ DictGet(http.sent[2], "signature") # DictGet(http.sent[1], "signature")

----------------------------------------------------------------------------
(* Properties of the symbol filters *)

\* q is the largest multiple of step that does not exceed v
LargestMultipleAtMost(q, step, v) == q % step = 0 /\ q <= v /\ v < q + step

\* p is the multiple of tick nearest to v, the upper one when v is half way
NearestMultipleTiesUp(p, tick, v) ==
    p % tick = 0 /\ 2 * (p - v) <= tick /\ 2 * (v - p) < tick

\* C25: the quantity place_order transmits is the largest multiple of
\* step_size that does not exceed the quantity asked for, and the price and
\* the trigger price it transmits are the multiples of tick_size nearest to
\* the ones asked for, the upper one on a tie.
OrderRoundedToFilters ==
    (tool.name = "place_order" /\ ~tool.result.raised) =>
        LET filters == tool.result.filters
        IN  /\ LargestMultipleAtMost(tool.result.quantity, filters.step_size, tool.args[1])
            /\ tool.args[2] # None =>
                   NearestMultipleTiesUp(tool.result.price, filters.tick_size, tool.args[2])
            /\ tool.args[3] # None =>
                   NearestMultipleTiesUp(tool.result.stopPrice, filters.tick_size, tool.args[3])

\* C29: a get_symbol_filters call for a symbol that is cached, without
\* force_refresh, returns the cached filters with no exchange request and
\* leaves the cache as it was; a call with force_refresh that succeeds makes
\* one request and returns and caches what the exchange publishes then; a
\* call for a symbol that is not cached makes one request; a call that raises
\* leaves the cache as it was.
FiltersFetchedOnce ==
    tool.name = "get_symbol_filters" =>
        LET symbol == tool.args[1]
            force_refresh == tool.args[2]
            was_cached == symbol \in DOMAIN tool.before
            fresh == ParseFilters(tool.published)
        IN  /\ (was_cached /\ ~force_refresh) =>
                   /\ ~tool.result.raised
                   /\ tool.result.requests = 0
                   /\ tool.result.value = <<tool.before[symbol]>>
                   /\ client.symbol_filters = tool.before
            /\ (force_refresh /\ ~tool.result.raised) =>
                   /\ tool.result.requests = 1
                   /\ tool.result.value = <<fresh>>
                   /\ client.symbol_filters[symbol] = fresh
            /\ (~was_cached /\ ~tool.result.raised) =>
                   /\ tool.result.requests = 1
                   /\ symbol \in DOMAIN client.symbol_filters
                   /\ client.symbol_filters[symbol] = fresh
            /\ tool.result.raised => client.symbol_filters = tool.before

\* the cached filters were returned after the exchange had changed them
CachedFiltersOutliveUpdate ==
    /\ tool.name = "get_symbol_filters"
    /\ ~tool.args[2]
    /\ tool.result.requests = 0
    /\ tool.result.value # <<ParseFilters(client.exchange_info)>>
    /\ tool.published = client.exchange_info

----------------------------------------------------------------------------
(* Properties of the position readers and of set_margin_mode *)

\* some entry of the answer carries an amount that is not zero
Listed(data) == \E i \in DOMAIN data : Float(data[i]) # 0

\* the amount of the first entry that is not zero
FirstAmount(data) ==
    Float(data[CHOOSE i \in DOMAIN data : Float(data[i]) # 0 /\ \A j \in 1..(i - 1) : Float(data[j]) = 0])

\* C26: _get_position_state reports has_position exactly when the answer of
\* the exchange lists an amount that is not zero, which is exactly when the
\* quantity it reports is positive, with direction LONG for a positive amount
\* and SHORT for a negative one; for a symbol with no entry or only zero
\* entries it reports has_position false and quantity 0, and
\* get_futures_position reports position_exists false exactly then.
PositionReportedIffNonZero ==
    /\ tool.name = "_get_position_state" =>
           /\ tool.result.has_position <=> Listed(tool.args)
           /\ tool.result.has_position <=> tool.result.quantity > 0
           /\ Listed(tool.args) =>
                  /\ tool.result.quantity = Abs(FirstAmount(tool.args))
                  /\ tool.result.direction = (IF FirstAmount(tool.args) > 0 THEN "LONG" ELSE "SHORT")
           /\ ~Listed(tool.args) => tool.result.quantity = 0 /\ tool.result.direction = "None"
    /\ tool.name = "get_futures_position" =>
           /\ tool.result.position_exists <=> Listed(tool.args)
           /\ tool.result.position_exists =>
                  tool.result.side = (IF FirstAmount(tool.args) > 0 THEN "LONG" ELSE "SHORT")

\* the exchange listed a zero entry and then a short one, and the reader
\* reported the short position
ShortBehindZeroEntry ==
    /\ tool.name = "_get_position_state"
    /\ Len(tool.args) >= 2
    /\ Float(tool.args[1]) = 0
    /\ Float(tool.args[2]) < 0
    /\ tool.result.has_position
    /\ tool.result.direction = "SHORT"

\* C27: set_margin_mode returns a result whatever the exchange answers: a
\* success reporting margin_type CROSSED when the rejection carries code
\* -4168, and a result with an error for every other HTTP rejection.
MarginRejectionReturned ==
    (tool.name = "set_margin_mode" /\ tool.args[1] \in {"ISOLATED", "CROSSED"}) =>
        LET outcome == tool.args[2]
            rejected == outcome.kind \in {"http_object", "http_not_json", "http_not_object"}
        IN  /\ ~tool.result.raised
            /\ (rejected /\ outcome.kind = "http_object" /\ outcome.code = MultiAssetsCode) =>
                   tool.result.success /\ tool.result.margin_type = "CROSSED"
            /\ (rejected /\ ~(outcome.kind = "http_object" /\ outcome.code = MultiAssetsCode)) =>
                   ~tool.result.success /\ tool.result.error # ""

----------------------------------------------------------------------------
(* Properties of _place_sl_tp_with_retry *)

\* an attempt of _place_sl_tp_with_retry is under way
Retrying == pc \in {"place_sl", "place_tp"} /\ loc.op = "open_position"

\* one step of an attempt: a leg that fails ends the attempt, and the next
\* attempt follows unless this was the last one, which ends the call with the
\* warning; a leg that does not fail leaves the attempt as it is, and the
\* attempt whose last leg does not fail ends the call
RetryStep ==
    Retrying =>
        LET failed == faults' = faults + 1
        IN  /\ (failed /\ loc.attempt < MaxRetries) =>
                   pc' = "place_sl" /\ loc'.attempt = loc.attempt + 1 /\ h'.result = "running"
            /\ (failed /\ loc.attempt >= MaxRetries) =>
                   pc' = "idle" /\ h'.result = "success" /\ h'.reason = "sl_tp_failed"
            /\ (~failed /\ pc = "place_sl") => pc' = "place_tp" /\ loc'.attempt = loc.attempt
            /\ (~failed /\ pc = "place_tp") =>
                   pc' = "idle" /\ h'.result = "success" /\ h'.reason = "placed"
            /\ h'.reason = "sl_tp_failed" => failed /\ loc.attempt = MaxRetries

\* C28: the protective orders of an open are attempted at most 3 times; the
\* attempt that succeeds is the last one; the call records final_error exactly
\* when the third attempt failed after the first two had, and the open then
\* returns its result with the warning.
ProtectionRetriedThrice ==
    /\ [](Retrying => loc.attempt \in 1..MaxRetries)
    /\ [][RetryStep]_vars

\* all three attempts failed and the position was opened without protection
OpenedWithWarning ==
    /\ h.op = "open_position"
    /\ h.result = "success"
    /\ h.reason = "sl_tp_failed"
    /\ faults = MaxFaults
    /\ position_amt # 0
    /\ pc = "idle"

----------------------------------------------------------------------------
(* Properties of the results *)

\* a cancel request of the operation failed: an order it asked to cancel is
\* still open
CancelFailed ==
    \E i \in 1..Len(h.pre) :
       /\ IsOpen(h.pre[i])
       /\ \E j \in 1..Len(h.cancelReq) : h.cancelReq[j] = h.pre[i].orderId

\* C30: an operation ends with a result, never with an exception, and when
\* one of its exchange calls failed the result is an error naming the failure;
\* stated here for close_position and its cancel requests.
FailureReported ==
    (pc = "idle" /\ Closing) =>
        /\ h.result \in {"success", "error"}
        /\ CancelFailed => (h.result = "error" /\ h.reason # "")

----------------------------------------------------------------------------
(* Properties of the operations taken together *)

\* C32: an open that found the opposite position and, after its close order,
\* read a position that is not zero returns an error, has sent no cancel-all
\* and no entry order, and leaves the position with the orders that were open
\* before the call.
FlipAbortKeepsOrders ==
    (pc = "idle" /\ Flipping /\ Sends("read_open")) =>
        /\ h.result = "error"
        /\ h.reason = "close_failed"
        /\ ~Sends("cancel_all")
        /\ ~Sends("entry")
        /\ h.entry = <<>>
        /\ h.cancelReq = <<>>
        /\ position_amt # 0
        /\ orders = h.pre

\* the close of a protected SHORT position was not filled and the open to
\* LONG returned with the stop-loss still open
FlipAbortedWithStopLoss ==
    /\ pc = "idle"
    /\ Flipping
    /\ h.prePos < 0
    /\ Sends("read_open")
    /\ Protective(orders, "STOP_MARKET") # {}

\* the stop-loss orders the operation placed
PlacedStops == {h.placed[i] : i \in {j \in 1..Len(h.placed) : h.placed[j].type = "STOP_MARKET"}}

\* C33: no operation (an open that adds to a position of its direction,
\* update_sl_tp) replaces the stop-loss of a LONG position by one with a
\* lower trigger price, or that of a SHORT position by one with a higher
\* trigger price.
StopLossNeverLoosened ==
    (/\ pc = "idle"
     /\ h.op \in {"open_position", "update_sl_tp"}
     /\ h.prePos # 0
     /\ position_amt # 0
     /\ PositionSide(position_amt) = PositionSide(h.prePos))
        => \A old \in Protective(h.pre, "STOP_MARKET"), new \in PlacedStops :
               (~IsOpen(old) /\ IsOpen(new)) =>
                   /\ h.prePos > 0 => new.stopPrice >= old.stopPrice
                   /\ h.prePos < 0 => new.stopPrice <= old.stopPrice

\* the price requested for the leg, if one is, is within 0.1% of the trigger
\* price the call read for that leg
WithinMatch(type) ==
    LET requested == Requested(type)
        existing == ExtractProtective(h.pre, type)
    IN  Truthy(requested) =>
            /\ existing # None
            /\ Abs(requested - existing) * 1000 <= MatchPerMille * existing

\* C34: a call that does not loosen the stop-loss, made outside the danger
\* zone, returns "skipped" exactly when every requested price is within 0.1%
\* of the existing trigger price of its leg and every existing protective
\* order has a quantity within 1% of the position quantity; otherwise it goes
\* on to replace the orders.
SkipsExactlyWhenMatching ==
    (/\ SafeReturned
     /\ TrailingValid
     /\ ~InDangerZone(mark_price, ExistingSl, ExistingTp))
        => LET matching == /\ WithinMatch("STOP_MARKET")
                           /\ WithinMatch("TAKE_PROFIT_MARKET")
                           /\ ~QtyOff("STOP_MARKET")
                           /\ ~QtyOff("TAKE_PROFIT_MARKET")
           IN  /\ matching <=> h.result = "skipped"
               /\ ~matching => h.result \in {"updated", "error"}

----------------------------------------------------------------------------
(* Properties of prepare_trading_environment *)

\* the ids of the orders of the listing that are (or are not) reduce-only
ListedIds(ords, reduce_only) ==
    {ords[i].orderId : i \in {j \in 1..Len(ords) : ords[j].reduceOnly = reduce_only}}

\* the ids the cleanup asked to cancel
RequestedIds == {tool.requested[i] : i \in 1..Len(tool.requested)}

\* C35: with a position open and a planned action that does not reverse it,
\* the cleanup asks to cancel every open order that is not reduce-only and no
\* reduce-only order; the cleanup asks to cancel a reduce-only order only when
\* there is no position.
CleanupKeepsProtection ==
    tool.name = "prepare_trading_environment" =>
        /\ (position_amt # 0 /\ ~tool.result.is_reversing) =>
               RequestedIds = ListedIds(tool.before, FALSE)
        /\ RequestedIds \cap ListedIds(tool.before, TRUE) # {} => position_amt = 0

----------------------------------------------------------------------------
(* Properties of the results of open_*_position and reduce_position *)

\* C36: an open or a reduce that returns an error has had no entry order and
\* no reduce order accepted by the exchange.
ErrorMeansNoOrder ==
    (pc = "idle" /\ h.result = "error") =>
        /\ h.op = "reduce_position" => h.close = <<>>
        /\ h.op = "open_position" => h.entry = <<>>

\* C37: after an update_sl_tp_safe call that returned an error because the
\* placement of the new orders failed, the open orders are the ones that were
\* open before the call.
FailedPlacementLeavesNothing ==
    (SafeReturned /\ h.result = "error" /\ h.reason = "place_failed") =>
        /\ orders = h.pre
        /\ \A new \in Protective(h.placed, "STOP_MARKET") \cup
                       Protective(h.placed, "TAKE_PROFIT_MARKET") : ~IsOpen(new)

\* C38: the symbol has at most one open reduce-only STOP_MARKET order and at
\* most one open reduce-only TAKE_PROFIT_MARKET order after an operation, as
\* long as no cancel request failed; stated for an open on a symbol that had
\* no position and no order, where no cancel request has anything to leave
\* behind.
NoDuplicateProtection ==
    (pc = "idle" /\ Opening /\ h.prePos = 0 /\ h.pre = <<>>) =>
        \A type \in {"STOP_MARKET", "TAKE_PROFIT_MARKET"} :
            Cardinality(ProtectiveIdx(orders, type)) <= 1

\* C39: whatever leverage the caller passes, the leverage an open sends to the
\* exchange in its set_leverage request lies in 1..125.
LeverageSentInRange ==
    (Opening /\ h.sizing # <<>> /\ Sends("set_leverage")) =>
        /\ Sizing.leverage \in 1..MaxLeverage
        /\ account.leverage \in 1..MaxLeverage

\* the adjustments of the running or last operation hold note
Noted(note) == \E i \in 1..Len(h.adjustments) : h.adjustments[i] = note

\* C40: open_short_position mirrors open_long_position; an open that got to
\* its sizing, in either direction, carries in its adjustments the notes of
\* the steps it took: the opposite position detected and closed and all
\* orders cancelled when it flipped, the stale orders cancelled (or the
\* failure of that) when there was no position, and the raised leverage.
MirroredAdjustments ==
    (Opening /\ h.sizing # <<>>) =>
        /\ Flipping => /\ Noted("detected_opposite")
                       /\ Noted("closed_opposite")
                       /\ Noted("cancelled_all")
        /\ h.prePos = 0 => (Noted("cancelled_stale") \/ Noted("could_not_cancel"))
        /\ Sizing.note <=> Noted("leverage_increased")

\* the decision cycle went past the risk manager / past the portfolio manager
PastRiskManager == graph.node \in {"portfolio_manager", "trader", "trader_tools", "END"}

PastPortfolioManager == graph.node \in {"trader", "trader_tools", "END"}

\* the risk manager ends its tool loop with no research report among the last
\* five messages
EndsUninformed ==
    /\ graph.node = "risk_manager"
    /\ graph'.node # "risk_manager_tools"
    /\ graph' # graph
    /\ graph'.error # "GraphRecursionError"
    /\ ScanResearchReport(graph.messages) = ""

\* C31: a risk manager that ends its tool loop with no research report aborts
\* the cycle with an error; the cycle gets past the risk manager only with a
\* research report obtained in this cycle and held by the state, past the
\* portfolio manager only with a risk assessment too; so the trader never
\* runs in a cycle that obtained no research report.
TraderNeedsResearch ==
    /\ [](PastRiskManager => /\ graph.technical_research_report # ""
                             /\ ResearchObtained(graph.messages))
    /\ [](PastPortfolioManager => graph.risk_assessment # "")
    /\ [][EndsUninformed => (graph'.node = "aborted" /\ graph'.error = "RuntimeError")]_vars
    /\ [][(graph.node = "portfolio_manager" /\ graph' # graph
              /\ graph'.error # "GraphRecursionError"
              /\ (graph.technical_research_report = "" \/ graph.risk_assessment = ""))
             => graph'.node = "aborted"]_vars

\* a cycle whose research agent answered with an error was aborted by the risk
\* manager
AbortedWithoutResearch ==
    /\ graph.node = "aborted"
    /\ graph.error = "RuntimeError"
    /\ ~ResearchObtained(graph.messages)
    /\ \E i \in 1..Len(graph.messages) : graph.messages[i] = "research_error"

====
